---------------------------- MODULE Spec2Model ----------------------------
(***************************************************************************)
(* A model of the ReactiveS3 synchronisation engine of BiomechanicsNet     *)
(* (src/frontend/src/state/ReactiveS3.ts): ReactiveIndex (the local mirror *)
(* of one S3 partition, fed by listings and PubSub events), ReactiveCursor *)
(* (a re-pointable view of one path of one index) and the listener         *)
(* registries that connect them.                                           *)
(*                                                                         *)
(* Strings are sequences of one-character strings, so that startsWith,     *)
(* endsWith and substring are computed as the code computes them.          *)
(* A JS Map is a function whose DOMAIN is the set of its keys.             *)
(***************************************************************************)
EXTENDS Integers, Sequences, FiniteSets, TLC

(***************************************************************************)
(* Bounds of the model: the clock runs from 1 to MaxTime, and the          *)
(* application makes at most MaxCalls calls (upload, delete,               *)
(* deleteByPrefix, fullRefresh) to the index.  A delivery scenario draws   *)
(* its events from MaxEvents different timestamps.                         *)
(***************************************************************************)
MaxTime == 2
MaxCalls == 2
MaxEvents == 3

Times == 1..MaxTime
EventTimes == 1..MaxEvents
Sizes == {1, 2}

(***************************************************************************)
(* String helpers (String.prototype.startsWith / endsWith / substring).    *)
(***************************************************************************)
StartsWith(s, p) == Len(p) <= Len(s) /\ SubSeq(s, 1, Len(p)) = p

EndsWith(s, c) == Len(s) > 0 /\ s[Len(s)] = c

Substring(s, n) == SubSeq(s, n + 1, Len(s))

RECURSIVE SumFn(_, _)
SumFn(f, S) ==
    IF S = {} THEN 0
    ELSE LET x == CHOOSE y \in S : TRUE IN f[x] + SumFn(f, S \ {x})

Count(seq, c) == Cardinality({j \in 1..Len(seq) : seq[j] = c})

Range(seq) == {seq[j] : j \in 1..Len(seq)}

Perms(S) == {q \in [1..Cardinality(S) -> S] : \A a \in S : \E j \in DOMAIN q : q[j] = a}

(***************************************************************************)
(* The universe: two indexes (the application builds one per storage       *)
(* level), two cursors, and the value null.                                *)
(***************************************************************************)
Indexes == {"public", "protected"}

Cursors == {"c1", "c2"}

Null == [null |-> TRUE]

EmptyMap == <<>>

FileMetadata(k, t, s) == [key |-> k, lastModified |-> t, size |-> s]

ZeroCalls == [c \in Cursors |-> 0]

\* The functions given to addChangeListener.
ChangeListeners == {"l1", "l2"}

ZeroChangeCalls == [l \in ChangeListeners |-> 0]

\* What lastOp records: the handler, the index or cursor it ran on, the key (or
\* path) and timestamp it was given, and how the promise it belongs to settled
\* ("none" while it is pending or when there is none).
Op(kind, on, key, time) ==
    [kind |-> kind, on |-> on, key |-> key, time |-> time, outcome |-> "none"]

Settled(op, outcome) == [op EXCEPT !.outcome = outcome]

VARIABLES
    files,                 \* ReactiveIndex.files, per index
    metadataListeners,     \* ReactiveIndex.metadataListeners: path -> listeners
    childrenListeners,     \* ReactiveIndex.childrenListeners: path -> listeners
    childrenLastNotified,  \* ReactiveIndex.childrenLastNotified: path -> children
    loading,               \* ReactiveIndex.loading
    loadingListeners,      \* ReactiveIndex.loadingListeners
    networkErrors,         \* ReactiveIndex.networkErrors: key -> message
    networkErrorListeners, \* ReactiveIndex.networkErrorListeners
    cursor,                \* the fields of each ReactiveCursor
    refreshes,             \* Storage.list calls in flight, per index
    lastOp,                \* the handler that ran last, with its arguments
    metaCalls,             \* calls of each cursor's _metadataListener in that handler
    childCalls,            \* calls of each cursor's _onChildrenListener in that handler
    loadingCalls,          \* calls of each cursor's loading listener in that handler
    errorCalls,            \* calls of each cursor's network-error listener in that handler
    now,                   \* the clock read by new Date()
    remote,                \* the objects of the public partition in S3: key -> record
    puts,                  \* Storage.put calls in flight
    removes,               \* Storage.remove calls in flight
    listings,              \* answers to Storage.list on their way back
    inflight,              \* PubSub messages published and not yet delivered
    callsMade,             \* how many calls the application has made to the public index
    scenario,              \* the events a delivery scenario has drawn, and its progress;
                           \* or the deleteByPrefix call whose Promise.all is pending
    connection,            \* the last connection-state notification of the socket, per index
    jsonFiles,             \* ReactiveCursor.jsonFiles: path -> ReactiveJsonFile, per cursor
    timers,                \* the timeouts scheduled with setTimeout and not yet fired
    downloads,             \* downloadText calls of pathChanged in flight
    pathChangedCalls,      \* calls of pathChanged on each cursor's documents in that handler
    uploads,               \* uploads of documents whose Storage.put resolved: the publishes
                           \* still pending and whether the promise of upload is settled
    changeCalls            \* calls of each change listener in that handler

sysvars == <<now, remote, puts, removes, listings, inflight, callsMade, scenario, connection>>

docvars == <<jsonFiles, timers, downloads, uploads>>

vars == <<files, metadataListeners, childrenListeners, childrenLastNotified,
          loading, loadingListeners, networkErrors, networkErrorListeners,
          cursor, refreshes, lastOp, metaCalls, childCalls, loadingCalls, errorCalls,
          now, remote, puts, removes, listings, inflight, callsMade, scenario,
          connection, jsonFiles, timers, downloads, pathChangedCalls, uploads,
          changeCalls>>

(***************************************************************************)
(* ReactiveIndex: queries.                                                 *)
(***************************************************************************)
GetMetadata(fs, path) == IF path \in DOMAIN fs THEN fs[path] ELSE Null

GetChildrenDropsGuard(fs, path) ==
    LET p  == IF path # <<>> /\ ~EndsWith(path, "/") THEN Append(path, "/") ELSE path
        ks == {k \in DOMAIN fs : StartsWith(k, p)}
    IN  [s \in {Substring(k, Len(p)) : k \in ks} |-> fs[p \o s]]

GetChildren(fs, path) ==
    LET p  == IF path # <<>> /\ ~EndsWith(path, "/") THEN Append(path, "/") ELSE path
        ks == {k \in DOMAIN fs : StartsWith(k, p) /\ k # p}
    IN  [s \in {Substring(k, Len(p)) : k \in ks} |-> fs[p \o s]]

(***************************************************************************)
(* Listener registries.                                                    *)
(***************************************************************************)
AddListener(L, path, c) ==
    IF path \in DOMAIN L THEN [L EXCEPT ![path] = Append(@, c)]
    ELSE (path :> <<c>>) @@ L

RemoveListenerForgets(L, path, c) == L

RemoveListener(L, path, c) ==
    IF path \in DOMAIN L /\ c \in Range(L[path])
    THEN LET j == CHOOSE n \in 1..Len(L[path]) :
                     L[path][n] = c /\ \A m \in 1..(n - 1) : L[path][m] # c
         IN  [L EXCEPT ![path] = SubSeq(@, 1, j - 1) \o SubSeq(@, j + 1, Len(@))]
    ELSE L

ListenersAt(L, path) == IF path \in DOMAIN L THEN L[path] ELSE <<>>

GetNumListeners(L) == SumFn([p \in DOMAIN L |-> Len(L[p])], DOMAIN L)

(***************************************************************************)
(* The merge primitives work on a record w holding one index's state and   *)
(* the cursors its listeners write to:                                     *)
(*   files, ml (metadataListeners), cl (childrenListeners),                *)
(*   ln (childrenLastNotified), loading, ll (loadingListeners),            *)
(*   ne (networkErrors), nel (networkErrorListeners), cur (the cursors),   *)
(*   mc, cc, lc, ec (the listener calls made so far by the handler).           *)
(***************************************************************************)
World(i) ==
    [files |-> files[i], ml |-> metadataListeners[i], cl |-> childrenListeners[i],
     ln |-> childrenLastNotified[i], loading |-> loading[i], ll |-> loadingListeners[i],
     ne |-> networkErrors[i], nel |-> networkErrorListeners[i], cur |-> cursor,
     mc |-> ZeroCalls, cc |-> ZeroCalls, lc |-> ZeroCalls, ec |-> ZeroCalls]

LastNotified(ln, path) == IF path \in DOMAIN ln THEN ln[path] ELSE EmptyMap

\* A listener is registered under at most one path (NoListenerLeak), so the
\* order in which forEach visits the paths does not show in the result.
UpdateChildListeners(w) ==
    LET changed  == {p \in DOMAIN w.cl : LastNotified(w.ln, p) # GetChildren(w.files, p)}
        hits(c)  == {p \in changed : c \in Range(w.cl[p])}
        calls(c) == SumFn([p \in changed |-> Count(w.cl[p], c)], changed)
    IN  [w EXCEPT
           !.cur = [c \in DOMAIN w.cur |->
                      IF hits(c) = {} THEN w.cur[c]
                      ELSE [w.cur[c] EXCEPT !.children =
                              GetChildren(w.files, CHOOSE p \in hits(c) : TRUE)]],
           !.cc  = [c \in DOMAIN w.cc |-> w.cc[c] + calls(c)],
           !.ln  = [p \in DOMAIN w.cl \cup DOMAIN w.ln |->
                      IF p \in DOMAIN w.cl THEN GetChildren(w.files, p) ELSE w.ln[p]]]

InvokeMetadataListeners(w, path, value) ==
    LET ls == ListenersAt(w.ml, path)
    IN  [w EXCEPT
           !.cur = [c \in DOMAIN w.cur |->
                      IF c \in Range(ls) THEN [w.cur[c] EXCEPT !.metadata = value]
                      ELSE w.cur[c]],
           !.mc  = [c \in DOMAIN w.mc |-> w.mc[c] + Count(ls, c)]]

DeleteFileInIndex(w, path) ==
    LET w1 == [w EXCEPT !.files = [k \in DOMAIN w.files \ {path} |-> w.files[k]]]
    IN  UpdateChildListeners(InvokeMetadataListeners(w1, path, Null))

UpdateFileInIndexNoTimestampCheck(w, file) ==
    LET w1 == [w EXCEPT !.files = (file.key :> file) @@ w.files]
    IN  UpdateChildListeners(InvokeMetadataListeners(w1, file.key, file))

\* What an update-in-index that never replaced a record it holds would do.
UpdateFileInIndexKeepsExisting(w, file) ==
    IF file.key \notin DOMAIN w.files
    THEN LET w1 == [w EXCEPT !.files = (file.key :> file) @@ w.files]
         IN  UpdateChildListeners(InvokeMetadataListeners(w1, file.key, file))
    ELSE w

UpdateFileInIndex(w, file) ==
    IF file.key \notin DOMAIN w.files
       \/ w.files[file.key].lastModified < file.lastModified
    THEN LET w1 == [w EXCEPT !.files = (file.key :> file) @@ w.files]
         IN  UpdateChildListeners(InvokeMetadataListeners(w1, file.key, file))
    ELSE w

(***************************************************************************)
(* Network errors and the loading flag.                                    *)
(***************************************************************************)
\* The error keys in localeCompare order.
ErrorKeyOrder == <<"Delete", "FullRefresh", "Get", "PubSub", "Upload">>

FullRefreshMessage == "We got an error trying to load the files! Attempting to reconnect..."

GetNetworkErrorMessages(ne) ==
    LET present == SelectSeq(ErrorKeyOrder, LAMBDA k : k \in DOMAIN ne)
    IN  [j \in 1..Len(present) |-> ne[present[j]]]

\* What a registry that notified on every call, changed or not, would do.
NotifyNetworkErrorListenersAlways(w, old) ==
    LET new == GetNetworkErrorMessages(w.ne)
    IN  [w EXCEPT
           !.cur = [c \in DOMAIN w.cur |->
                      IF c \in Range(w.nel)
                      THEN [w.cur[c] EXCEPT !.networkErrors = new] ELSE w.cur[c]],
           !.ec  = [c \in DOMAIN w.ec |-> w.ec[c] + Count(w.nel, c)]]

NotifyNetworkErrorListeners(w, old) ==
    LET new == GetNetworkErrorMessages(w.ne)
    IN  IF new # old
        THEN [w EXCEPT
                !.cur = [c \in DOMAIN w.cur |->
                           IF c \in Range(w.nel)
                           THEN [w.cur[c] EXCEPT !.networkErrors = new] ELSE w.cur[c]],
                !.ec  = [c \in DOMAIN w.ec |-> w.ec[c] + Count(w.nel, c)]]
        ELSE w

SetNetworkError(w, key, value) ==
    NotifyNetworkErrorListeners([w EXCEPT !.ne = (key :> value) @@ w.ne],
                                GetNetworkErrorMessages(w.ne))

ClearNetworkError(w, key) ==
    NotifyNetworkErrorListeners(
        [w EXCEPT !.ne = [k \in DOMAIN w.ne \ {key} |-> w.ne[k]]],
        GetNetworkErrorMessages(w.ne))

SetIsLoading(w, value) ==
    IF value # w.loading
    THEN [w EXCEPT
            !.loading = value,
            !.cur = [c \in DOMAIN w.cur |->
                       IF c \in Range(w.ll)
                       THEN [w.cur[c] EXCEPT !.loading = value] ELSE w.cur[c]],
            !.lc  = [c \in DOMAIN w.lc |-> w.lc[c] + Count(w.ll, c)]]
    ELSE w

(***************************************************************************)
(* fullRefresh: the body of its .then callback, for the listing newFiles   *)
(* (a map key -> record).  deleted and updated give the order in which     *)
(* files.forEach and newFiles.forEach visit the keys.                      *)
(***************************************************************************)
\* What a fullRefresh that only merged the listing's entries, without treating
\* the keys absent from it as deleted, would do.
DeleteAllSkipped(w, ks) == w

RECURSIVE DeleteAll(_, _)
DeleteAll(w, ks) ==
    IF ks = <<>> THEN w ELSE DeleteAll(DeleteFileInIndex(w, Head(ks)), Tail(ks))

RECURSIVE UpdateAll(_, _, _)
UpdateAll(w, newFiles, ks) ==
    IF ks = <<>> THEN w
    ELSE UpdateAll(UpdateFileInIndex(w, newFiles[Head(ks)]), newFiles, Tail(ks))

\* What a fullRefresh whose .then callback left the 'FullRefresh' error would do.
ApplyListingKeepsError(w, newFiles, deleted, updated) ==
    UpdateAll(DeleteAll(SetIsLoading(w, FALSE), deleted), newFiles, updated)

ApplyListing(w, newFiles, deleted, updated) ==
    LET w1 == ClearNetworkError(SetIsLoading(w, FALSE), "FullRefresh")
    IN  UpdateAll(DeleteAll(w1, deleted), newFiles, updated)

(***************************************************************************)
(* Writing a handler's result back to index i.                             *)
(***************************************************************************)
Commit(i, w) ==
    /\ files' = [files EXCEPT ![i] = w.files]
    /\ childrenLastNotified' = [childrenLastNotified EXCEPT ![i] = w.ln]
    /\ loading' = [loading EXCEPT ![i] = w.loading]
    /\ networkErrors' = [networkErrors EXCEPT ![i] = w.ne]
    /\ cursor' = w.cur
    /\ metaCalls' = w.mc
    /\ childCalls' = w.cc
    /\ loadingCalls' = w.lc
    /\ errorCalls' = w.ec
    /\ pathChangedCalls' = ZeroCalls
    /\ changeCalls' = ZeroChangeCalls
    /\ UNCHANGED <<metadataListeners, childrenListeners, loadingListeners,
                   networkErrorListeners>>

NoListenerCalls ==
    /\ metaCalls' = ZeroCalls
    /\ childCalls' = ZeroCalls
    /\ loadingCalls' = ZeroCalls
    /\ errorCalls' = ZeroCalls
    /\ changeCalls' = ZeroChangeCalls

NoCalls == NoListenerCalls /\ pathChangedCalls' = ZeroCalls

(***************************************************************************)
(* The keys, records and paths the cursor model draws its inputs from.     *)
(***************************************************************************)
CursorKeys == {<<"a", "/", "x">>, <<"b">>}

CursorPaths == {<<>>, <<"a">>, <<"b">>}

CursorFiles == {FileMetadata(k, t, s) : k \in CursorKeys, t \in Times, s \in Sizes}

(***************************************************************************)
(* Events reaching an index.                                               *)
(***************************************************************************)
OnReceivedPubSubUpdate(i, file) ==
    /\ Commit(i, UpdateFileInIndex(World(i), file))
    /\ lastOp' = Op("update", i, file.key, file.lastModified)
    /\ UNCHANGED <<refreshes, sysvars, docvars>>

OnReceivedPubSubDelete(i, key) ==
    /\ Commit(i, DeleteFileInIndex(World(i), key))
    /\ lastOp' = Op("delete", i, key, 0)
    /\ UNCHANGED <<refreshes, sysvars, docvars>>

(***************************************************************************)
(* The public partition as a system: the S3 objects (remote), the calls of     *)
(* Storage in flight and the PubSub messages on their way.  The index's    *)
(* globalPrefix is 'public/' (setupPubsub), put in front of every key on   *)
(* the wire and cut off on receipt.                                        *)
\* The value of scenario when no delivery scenario is being played.
NoScenario == [kind |-> "none"]

(***************************************************************************)
Sys == "public"

GlobalPrefix == <<"p", "u", "b", "l", "i", "c", "/">>

UploadMessage == "We got an error trying to upload a file!"

DeleteMessage == "We got an error trying to delete a file!"

Tick ==
    /\ now < MaxTime
    /\ now' = now + 1
    /\ lastOp' = Op("tick", Sys, <<>>, 0)
    /\ NoCalls
    /\ UNCHANGED <<files, metadataListeners, childrenListeners, childrenLastNotified,
                   loading, loadingListeners, networkErrors, networkErrorListeners,
                   cursor, refreshes, remote, puts, removes, listings, inflight, callsMade, scenario,
                   connection, docvars>>

\* upload(path, contents), called on the index, through a cursor (upload,
\* uploadChild) or by the upload timer of a ReactiveJsonFile: updatedFile is built
\* at the call, Storage.put starts.
Upload(path, size) ==
    /\ callsMade < MaxCalls
    /\ callsMade' = callsMade + 1
    /\ puts' = puts \cup {[path |-> path,
                            file |-> FileMetadata(GlobalPrefix \o path, now, size)]}
    /\ lastOp' = Op("upload", Sys, <<>>, 0)
    /\ NoCalls
    /\ UNCHANGED <<files, metadataListeners, childrenListeners, childrenLastNotified,
                   loading, loadingListeners, networkErrors, networkErrorListeners,
                   cursor, refreshes, now, remote, removes, listings, inflight, scenario,
                   connection, docvars>>

\* What a bug that merged the uploaded record into the index at completion,
\* without waiting for the published event to come back, would do.
UploadThenMergesDirectly(w, updatedFile) ==
    UpdateFileInIndex(ClearNetworkError(w, "Upload"),
        FileMetadata(Substring(updatedFile.key, Len(GlobalPrefix)),
                     updatedFile.lastModified, updatedFile.size))

\* The .then callback of Storage.put in upload: what it does to the index (the
\* publish of updatedFile is the message PutThen puts in flight).
UploadThen(w, updatedFile) == ClearNetworkError(w, "Upload")

\* Storage.put resolved: S3 holds the object, and .then publishes updatedFile.
PutThen(put) ==
    /\ put \in puts
    /\ puts' = puts \ {put}
    /\ remote' = (put.path :> FileMetadata(put.path, now, put.file.size)) @@ remote
    /\ Commit(Sys, UploadThen(World(Sys), put.file))
    /\ inflight' = inflight \cup {[topic |-> "UPDATE", body |-> put.file]}
    /\ lastOp' = Settled(Op("putThen", Sys, <<>>, 0), "resolved")
    /\ UNCHANGED <<refreshes, now, removes, listings, callsMade, scenario,
                   connection, docvars>>

\* What an upload that let the failure pass without recording it would do.
UploadCatchUnrecorded(w) == w

\* The .catch callback of Storage.put in upload: what it does to the index (it
\* then rejects the promise upload returned).
UploadCatch(w) == SetNetworkError(w, "Upload", UploadMessage)

\* Storage.put rejected.
PutCatch(put) ==
    /\ put \in puts
    /\ puts' = puts \ {put}
    /\ Commit(Sys, UploadCatch(World(Sys)))
    /\ lastOp' = Settled(Op("putCatch", Sys, <<>>, 0), "rejected")
    /\ UNCHANGED <<refreshes, now, remote, removes, listings, inflight, callsMade, scenario,
                   connection, docvars>>

\* delete(path): Storage.remove starts.
Delete(path) ==
    /\ callsMade < MaxCalls
    /\ callsMade' = callsMade + 1
    /\ removes' = removes \cup {path}
    /\ lastOp' = Op("deleteCalled", Sys, <<>>, 0)
    /\ NoCalls
    /\ UNCHANGED <<files, metadataListeners, childrenListeners, childrenLastNotified,
                   loading, loadingListeners, networkErrors, networkErrorListeners,
                   cursor, refreshes, now, remote, puts, listings, inflight, scenario,
                   connection, docvars>>

\* What a deleteByPrefix that matched the prefix as a whole key would do.
KeysWithPrefixExact(fs, prefix) == {path \in DOMAIN fs : path = prefix}

\* The paths deleteByPrefix calls delete for: files.forEach with startsWith.
KeysWithPrefix(fs, prefix) == {path \in DOMAIN fs : StartsWith(path, prefix)}

\* deleteByPrefix(prefix): one delete per key of files that starts with prefix.
DeleteByPrefix(prefix) ==
    /\ callsMade < MaxCalls
    /\ callsMade' = callsMade + 1
    /\ removes' = removes \cup KeysWithPrefix(files[Sys], prefix)
    /\ lastOp' = Op("deleteByPrefix", Sys, <<>>, 0)
    /\ NoCalls
    /\ UNCHANGED <<files, metadataListeners, childrenListeners, childrenLastNotified,
                   loading, loadingListeners, networkErrors, networkErrorListeners,
                   cursor, refreshes, now, remote, puts, listings, inflight, scenario,
                   connection, docvars>>

\* Storage.remove resolved: the object is gone, and .then publishes the delete.
RemoveThen(path) ==
    /\ path \in removes
    /\ removes' = removes \ {path}
    /\ remote' = [k \in DOMAIN remote \ {path} |-> remote[k]]
    /\ Commit(Sys, ClearNetworkError(World(Sys), "Delete"))
    /\ inflight' = inflight \cup {[topic |-> "DELETE", body |-> [key |-> GlobalPrefix \o path]]}
    /\ lastOp' = Settled(Op("removeThen", Sys, <<>>, 0), "resolved")
    /\ UNCHANGED <<refreshes, now, puts, listings, callsMade, scenario,
                   connection, docvars>>

\* The .catch callback of Storage.remove in delete: what it does to the index (it
\* then re-throws, which rejects the promise delete returned).
DeleteCatch(w) == SetNetworkError(w, "Delete", DeleteMessage)

\* Storage.remove rejected.
RemoveCatch(path) ==
    /\ path \in removes
    /\ removes' = removes \ {path}
    /\ Commit(Sys, DeleteCatch(World(Sys)))
    /\ lastOp' = Settled(Op("removeCatch", Sys, <<>>, 0), "rejected")
    /\ UNCHANGED <<refreshes, now, remote, puts, listings, inflight, callsMade, scenario,
                   connection, docvars>>

\* The subscription callbacks of registerPubSubListeners: a message arrives (and
\* may arrive again later, when keep is set).
ReceiveMessage(msg, keep) ==
    /\ msg \in inflight
    /\ inflight' = IF keep THEN inflight ELSE inflight \ {msg}
    /\ LET key == Substring(msg.body.key, Len(GlobalPrefix))
       IN  IF msg.topic = "UPDATE"
           THEN /\ Commit(Sys, UpdateFileInIndex(World(Sys),
                       FileMetadata(key, msg.body.lastModified, msg.body.size)))
                /\ lastOp' = Op("updateReceived", Sys, <<>>, 0)
           ELSE /\ Commit(Sys, DeleteFileInIndex(World(Sys), key))
                /\ lastOp' = Op("deleteReceived", Sys, <<>>, 0)
    /\ UNCHANGED <<refreshes, now, remote, puts, removes, listings, callsMade, scenario,
                   connection, docvars>>

\* fullRefresh(): the loading flag is raised and Storage.list starts.
FullRefresh ==
    /\ callsMade < MaxCalls
    /\ callsMade' = callsMade + 1
    /\ Commit(Sys, SetIsLoading(World(Sys), TRUE))
    /\ refreshes' = [refreshes EXCEPT ![Sys] = @ + 1]
    /\ lastOp' = Op("fullRefresh", Sys, <<>>, 0)
    /\ UNCHANGED <<now, remote, puts, removes, listings, inflight, scenario,
                   connection, docvars>>

\* S3 answers a Storage.list call with the objects it holds at that moment.
StorageList ==
    /\ Len(listings) < refreshes[Sys]
    /\ listings' = Append(listings, [newFiles |-> remote, takenAt |-> now])
    /\ lastOp' = Op("list", Sys, <<>>, 0)
    /\ NoCalls
    /\ UNCHANGED <<files, metadataListeners, childrenListeners, childrenLastNotified,
                   loading, loadingListeners, networkErrors, networkErrorListeners,
                   cursor, refreshes, now, remote, puts, removes, inflight, callsMade, scenario,
                   connection, docvars>>

\* The .then callback of fullRefresh, for the answer at position j.
FullRefreshThen(j) ==
    /\ j \in 1..Len(listings)
    /\ LET newFiles == listings[j].newFiles
       IN  \E deleted \in Perms(DOMAIN files[Sys] \ DOMAIN newFiles),
              updated \in Perms(DOMAIN newFiles) :
              Commit(Sys, ApplyListing(World(Sys), newFiles, deleted, updated))
    /\ listings' = SubSeq(listings, 1, j - 1) \o SubSeq(listings, j + 1, Len(listings))
    /\ refreshes' = [refreshes EXCEPT ![Sys] = @ - 1]
    /\ lastOp' = Settled(Op("listing", Sys, <<>>, listings[j].takenAt), "resolved")
    /\ UNCHANGED <<now, remote, puts, removes, inflight, callsMade, scenario,
                   connection, docvars>>

\* What a .catch that forgot setIsLoading(false) would do.
FullRefreshFailedStaysLoading(w) == SetNetworkError(w, "FullRefresh", FullRefreshMessage)

\* The body of the .catch callback of fullRefresh; it returns normally, so the
\* promise fullRefresh returned resolves.
FullRefreshFailed(w) ==
    SetNetworkError(SetIsLoading(w, FALSE), "FullRefresh", FullRefreshMessage)

PubSubMessage == "We got an error in PubSub! Attempting to reconnect..."

\* What a connection listener that raised the error and never cleared it would do.
OnConnectionChangedNeverClears(w, connected) ==
    IF ~connected THEN SetNetworkError(w, "PubSub", PubSubMessage) ELSE w

\* The connection listener registerPubSubListeners adds to the socket.
OnConnectionChanged(w, connected) ==
    IF ~connected
    THEN SetNetworkError(w, "PubSub", PubSubMessage)
    ELSE ClearNetworkError(w, "PubSub")

\* The socket notifies its connection listeners.
ConnectionChanged(connected) ==
    /\ Commit(Sys, OnConnectionChanged(World(Sys), connected))
    /\ connection' = [connection EXCEPT ![Sys] =
                         IF connected THEN "connected" ELSE "disconnected"]
    /\ lastOp' = Op("connection", Sys, <<>>, 0)
    /\ UNCHANGED <<refreshes, now, remote, puts, removes, listings, inflight, callsMade,
                   scenario, docvars>>

\* The .catch callback of fullRefresh: a Storage.list call failed.
FullRefreshCatch ==
    /\ refreshes[Sys] > Len(listings)
    /\ Commit(Sys, FullRefreshFailed(World(Sys)))
    /\ refreshes' = [refreshes EXCEPT ![Sys] = @ - 1]
    /\ lastOp' = Settled(Op("listingFailed", Sys, <<>>, 0), "resolved")
    /\ UNCHANGED <<sysvars, docvars>>

(***************************************************************************)
(* fullRefresh on either index, when S3 lists what the index holds.        *)
(***************************************************************************)
\* fullRefresh() of index i: the loading flag is raised and Storage.list starts.
FullRefreshOn(i) ==
    /\ callsMade < MaxCalls
    /\ callsMade' = callsMade + 1
    /\ Commit(i, SetIsLoading(World(i), TRUE))
    /\ refreshes' = [refreshes EXCEPT ![i] = @ + 1]
    /\ lastOp' = Op("fullRefresh", i, <<>>, 0)
    /\ UNCHANGED <<now, remote, puts, removes, listings, inflight, scenario,
                   connection, docvars>>

\* The .then callback of fullRefresh of index i, for a listing of the very files
\* the index holds.
FullRefreshThenOn(i) ==
    /\ refreshes[i] > 0
    /\ \E updated \in Perms(DOMAIN files[i]) :
          Commit(i, ApplyListing(World(i), files[i], <<>>, updated))
    /\ refreshes' = [refreshes EXCEPT ![i] = @ - 1]
    /\ lastOp' = Settled(Op("listing", i, <<>>, 0), "resolved")
    /\ UNCHANGED <<sysvars, docvars>>

\* The .catch callback of fullRefresh of index i.
FullRefreshCatchOn(i) ==
    /\ refreshes[i] > 0
    /\ Commit(i, FullRefreshFailed(World(i)))
    /\ refreshes' = [refreshes EXCEPT ![i] = @ - 1]
    /\ lastOp' = Settled(Op("listingFailed", i, <<>>, 0), "resolved")
    /\ UNCHANGED <<sysvars, docvars>>

(***************************************************************************)
(* ReactiveJsonFile: a JSON document a cursor owns under a child path.     *)
(* values is a JS Map: a sequence of <<key, value>> pairs in insertion     *)
(* order.  A JSON text is the sequence of its tokens.                      *)
(***************************************************************************)
DebounceDelay == 1  \* setTimeout(..., 500): one tick of the clock is 500 ms

MaxListeners == 2

GetMessage == "We got an error trying to download a file!"

\* What an ensurePathEndsWithSlash that appended '/' to every path would do.
EnsurePathEndsWithSlashAlways(path) == Append(path, "/")

EnsurePathEndsWithSlash(path) ==
    IF EndsWith(path, "/") \/ Len(path) = 0 THEN path ELSE Append(path, "/")

\* Map.prototype.set: an existing key keeps its place.
MapSet(m, k, v) ==
    IF \E j \in 1..Len(m) : m[j][1] = k
    THEN [j \in 1..Len(m) |-> IF m[j][1] = k THEN <<k, v>> ELSE m[j]]
    ELSE Append(m, <<k, v>>)

RECURSIVE MapSetAll(_, _)
MapSetAll(m, pairs) ==
    IF pairs = <<>> THEN m
    ELSE MapSetAll(MapSet(m, Head(pairs)[1], Head(pairs)[2]), Tail(pairs))

\* JSON.stringify of the object restartUploadTimer builds from values.
RECURSIVE JsonMembers(_)
JsonMembers(m) ==
    IF m = <<>> THEN <<>>
    ELSE <<m[1][1], ":", m[1][2]>> \o
         (IF Len(m) > 1 THEN <<",">> \o JsonMembers(Tail(m)) ELSE <<>>)

JsonStringify(m) == <<"{">> \o JsonMembers(m) \o <<"}">>

\* JSON.parse of a text: the members of the object in order, or a SyntaxError.
Punctuation == {"{", "}", ":", ","}

SyntaxError == [ok |-> FALSE]

RECURSIVE ParseMembers(_)
ParseMembers(toks) ==
    IF Len(toks) >= 3 /\ toks[1] \notin Punctuation /\ toks[2] = ":"
                      /\ toks[3] \notin Punctuation
    THEN IF Len(toks) = 3
         THEN [ok |-> TRUE, result |-> <<<<toks[1], toks[3]>>>>]
         ELSE IF toks[4] = ","
              THEN LET rest == ParseMembers(SubSeq(toks, 5, Len(toks)))
                   IN  IF rest.ok
                       THEN [ok |-> TRUE, result |-> <<<<toks[1], toks[3]>>>> \o rest.result]
                       ELSE SyntaxError
              ELSE SyntaxError
    ELSE SyntaxError

JsonParse(text) ==
    IF Len(text) >= 2 /\ text[1] = "{" /\ text[Len(text)] = "}"
    THEN IF Len(text) = 2
         THEN [ok |-> TRUE, result |-> <<>>]
         ELSE ParseMembers(SubSeq(text, 2, Len(text) - 1))
    ELSE SyntaxError

NewJsonFile == [values |-> <<>>, pendingTimeout |-> Null, changeListeners |-> <<>>]

\* pathChanged of the document at path of cursor c, whose fields are cur; st holds
\* the documents of c and the downloads in flight.
PathChanged(st, c, cur, path) ==
    IF path \in DOMAIN cur.children
    THEN [st EXCEPT !.downloads =
            Append(@, [cursor |-> c, path |-> path, index |-> cur.index,
                       file |-> EnsurePathEndsWithSlash(cur.path) \o path])]
    ELSE [st EXCEPT !.docs[path].values = <<>>]

\* jsonFiles.forEach(file => file.pathChanged()), visiting the paths in order ps.
RECURSIVE PathChangedAll(_, _, _, _)
PathChangedAll(st, c, cur, ps) ==
    IF ps = <<>> THEN st
    ELSE PathChangedAll(PathChanged(st, c, cur, Head(ps)), c, cur, Tail(ps))

\* What a .then callback without the clear() of its catch block would do.
PathChangedThenKeepsValues(doc, text) ==
    LET parsed == JsonParse(text)
    IN  IF parsed.ok
        THEN [doc EXCEPT !.values = MapSetAll(@, parsed.result)]
        ELSE doc

\* The .then callback of downloadText in pathChanged, given the text.
PathChangedThen(doc, text) ==
    LET parsed == JsonParse(text)
    IN  IF parsed.ok
        THEN [doc EXCEPT !.values = MapSetAll(@, parsed.result)]
        ELSE [doc EXCEPT !.values = <<>>]

(***************************************************************************)
(* ReactiveCursor.                                                         *)
(***************************************************************************)
RepointListeners(L, i, oldPath, j, newPath, c) ==
    LET removed == [L EXCEPT ![i] = RemoveListener(@, oldPath, c)]
    IN  [removed EXCEPT ![j] = AddListener(@, newPath, c)]

\* What a setPath without its early return would do.
SamePathIgnored(c, path) == FALSE

\* The test of setPath's early return.
SamePath(c, path) == path = cursor[c].path

SetPath(c, path) ==
    LET i   == cursor[c].index
        cur == [cursor[c] EXCEPT !.path = path,
                                 !.metadata = GetMetadata(files[i], path),
                                 !.children = GetChildren(files[i], path)]
        ps  == IF DOMAIN jsonFiles[c] = {} THEN <<>>
               ELSE CHOOSE q \in Perms(DOMAIN jsonFiles[c]) : TRUE
        st  == PathChangedAll([docs |-> jsonFiles[c], downloads |-> downloads], c, cur, ps)
    IN  /\ IF SamePath(c, path)
           THEN /\ UNCHANGED <<metadataListeners, childrenListeners, cursor, docvars>>
                /\ pathChangedCalls' = ZeroCalls
           ELSE /\ metadataListeners' =
                      RepointListeners(metadataListeners, i, cursor[c].path, i, path, c)
                /\ childrenListeners' =
                      RepointListeners(childrenListeners, i, cursor[c].path, i, path, c)
                /\ cursor' = [cursor EXCEPT ![c] = cur]
                /\ jsonFiles' = [jsonFiles EXCEPT ![c] = st.docs]
                /\ downloads' = st.downloads
                /\ pathChangedCalls' = [ZeroCalls EXCEPT ![c] = Len(ps)]
                /\ UNCHANGED <<timers, uploads>>
        /\ lastOp' = Op("setPath", c, path, 0)
        /\ NoListenerCalls
        /\ UNCHANGED <<files, childrenLastNotified, loading, loadingListeners,
                       networkErrors, networkErrorListeners, refreshes, sysvars>>

SetIndex(c, index) ==
    LET i == cursor[c].index
        p == cursor[c].path
    IN  /\ IF index = i
           THEN UNCHANGED <<metadataListeners, childrenListeners, cursor>>
           ELSE /\ metadataListeners' = RepointListeners(metadataListeners, i, p, index, p, c)
                /\ childrenListeners' = RepointListeners(childrenListeners, i, p, index, p, c)
                /\ cursor' = [cursor EXCEPT ![c] =
                      [@ EXCEPT !.index = index,
                                !.metadata = GetMetadata(files[index], p),
                                !.children = GetChildren(files[index], p)]]
        /\ lastOp' = Op("setIndex", c, <<index>>, 0)
        /\ NoCalls
        /\ UNCHANGED <<files, childrenLastNotified, loading, loadingListeners,
                       networkErrors, networkErrorListeners, refreshes, sysvars,
                       docvars>>

(***************************************************************************)
\* String.prototype.split: the segments of s between the separators.
RECURSIVE Split(_, _)
Split(s, sep) ==
    IF \E j \in 1..Len(s) : s[j] = sep
    THEN LET n == CHOOSE j \in 1..Len(s) : s[j] = sep /\ \A m \in 1..(j - 1) : s[m] # sep
         IN  <<SubSeq(s, 1, n - 1)>> \o Split(SubSeq(s, n + 1, Len(s)), sep)
    ELSE <<s>>

\* What lastOp records of a query: its argument and the value it returned.
OpResult(kind, on, key, result) ==
    [kind |-> kind, on |-> on, key |-> key, time |-> 0, outcome |-> "none",
     result |-> result]

(***************************************************************************)
(* makeTopicPubSubSafe                                                     *)
(***************************************************************************)
MAX_TOPIC_LEN == 80

\* What the loop of makeTopicPubSubSafe would build if it took a proposal of
\* exactly MAX_TOPIC_LEN characters as well.
RECURSIVE ReconstructedUpToLimit(_, _, _)
ReconstructedUpToLimit(segments, segmentCursor, reconstructed) ==
    IF segmentCursor > Len(segments) THEN reconstructed
    ELSE LET proposedNext ==
                 (IF segmentCursor > 1 THEN Append(reconstructed, "/") ELSE reconstructed)
                    \o segments[segmentCursor]
         IN  IF Len(proposedNext) <= MAX_TOPIC_LEN
             THEN ReconstructedUpToLimit(segments, segmentCursor + 1, proposedNext)
             ELSE reconstructed

\* The while loop of makeTopicPubSubSafe, entered with segmentCursor and
\* reconstructed: the segments are joined with '/' for as long as the proposal
\* stays under MAX_TOPIC_LEN characters.
RECURSIVE Reconstructed(_, _, _)
Reconstructed(segments, segmentCursor, reconstructed) ==
    IF segmentCursor > Len(segments) THEN reconstructed
    ELSE LET proposedNext ==
                 (IF segmentCursor > 1 THEN Append(reconstructed, "/") ELSE reconstructed)
                    \o segments[segmentCursor]
         IN  IF Len(proposedNext) < MAX_TOPIC_LEN
             THEN Reconstructed(segments, segmentCursor + 1, proposedNext)
             ELSE reconstructed

\* What a makeTopicPubSubSafe that cut nothing would return.
MakeTopicPubSubSafeUncut(path) == path

MakeTopicPubSubSafe(path) ==
    IF Len(path) > MAX_TOPIC_LEN
    THEN LET segments == Split(path, "/")
         IN  IF Len(segments[1]) > MAX_TOPIC_LEN
             THEN SubSeq(segments[1], 1, MAX_TOPIC_LEN)
             ELSE Reconstructed(segments, 1, <<>>)
    ELSE path

\* The topic upload(path) of the public index publishes to.
UploadTopic(path) ==
    MakeTopicPubSubSafe(<<"/", "U", "P", "D", "A", "T", "E", "/">> \o GlobalPrefix \o path)

\* The topic delete(path) of the public index publishes to.
DeleteTopic(path) ==
    MakeTopicPubSubSafe(<<"/", "D", "E", "L", "E", "T", "E", "/">> \o GlobalPrefix \o path)

\* What a hasChildren that took any key beginning with the name would do.
FoundMatchAnyPrefix(children, childName) ==
    \E existing \in DOMAIN children : StartsWith(existing, childName)

\* The inner loop of hasChildren: is childName among the keys of children, or
\* implied by one of them as a folder?
FoundMatch(children, childName) ==
    \E existing \in DOMAIN children :
        /\ StartsWith(existing, childName)
        /\ LET remainingPath == Substring(existing, Len(childName))
           IN  \/ Len(remainingPath) = 0
               \/ remainingPath[1] = "/"
               \/ EndsWith(childName, "/")

\* hasChildren() on a cursor whose cached children are children, the argument
\* left out.
HasAnyChildren(children) == Cardinality(DOMAIN children) > 0

\* hasChildren(childNames), the argument given.
HasChildren(children, childNames) ==
    \A n \in 1..Len(childNames) : FoundMatch(children, childNames[n])

\* The first line of getChildrenOf.
Normalized(childPath) ==
    IF ~StartsWith(childPath, <<"/">>) THEN childPath \o <<"/">> ELSE childPath

\* getChildrenOf(childPath).
GetChildrenOf(children, childPath) ==
    LET prefix == Normalized(childPath)
        under  == {path \in DOMAIN children : StartsWith(path, prefix)}
    IN  [subPath \in {Substring(path, Len(prefix)) : path \in under} |->
            children[prefix \o subPath]]

\* What a getImmediateChildFolders that kept the first child's size would do.
AddToFolderKeepsSize(existingFolder, file) ==
    [key |-> existingFolder.key,
     lastModified |-> IF file.lastModified > existingFolder.lastModified
                      THEN file.lastModified ELSE existingFolder.lastModified,
     size |-> existingFolder.size]

\* The else branch of getImmediateChildFolders: a further child of a folder.
AddToFolder(existingFolder, file) ==
    [key |-> existingFolder.key,
     lastModified |-> IF file.lastModified > existingFolder.lastModified
                      THEN file.lastModified ELSE existingFolder.lastModified,
     size |-> file.size + existingFolder.size]

\* The callback of children.forEach in getImmediateChildFolders; folders is the
\* Map built so far, a sequence of <<key, folder>> pairs in insertion order.
VisitChild(folders, of, relativePath, file) ==
    IF ~StartsWith(relativePath, of) \/ relativePath = of
    THEN folders
    ELSE LET parts == Split(Substring(relativePath, Len(of)), "/")
             found == {j \in 1..Len(folders) : folders[j][1] = parts[1]}
         IN  IF found = {}
             THEN MapSet(folders, parts[1],
                         FileMetadata(parts[1], file.lastModified, file.size))
             ELSE MapSet(folders, parts[1],
                         AddToFolder(folders[CHOOSE j \in found : TRUE][2], file))

RECURSIVE VisitChildren(_, _, _, _)
VisitChildren(folders, of, children, order) ==
    IF order = <<>> THEN folders
    ELSE VisitChildren(VisitChild(folders, of, Head(order), children[Head(order)]),
                       of, children, Tail(order))

\* getImmediateChildFolders(of), the children visited in the given order: the
\* values of the Map.  (Array.prototype.sort without a comparator compares the
\* folders as the string '[object Object]', so it leaves their order alone.)
GetImmediateChildFolders(children, of, order) ==
    LET folders == VisitChildren(<<>>, of, children, order)
    IN  [j \in 1..Len(folders) |-> folders[j][2]]

\* The prefix deleteByPrefix(prefix) of a cursor at path hands to its index.
TotalPrefix(path, prefix) ==
    IF Len(path) > 0 /\ Len(prefix) > 0
    THEN EnsurePathEndsWithSlash(path) \o prefix
    ELSE path \o prefix

\* Promise.all(allPromises) of a deleteByPrefix that called delete for the paths
\* in issued: pending until Storage.remove has resolved (and the delete event is
\* published) for each.
PromiseAll(issued) == IF issued \cap removes = {} THEN "resolved" ELSE "pending"

\* deleteByPrefix(prefix) on cursor c, whose index is the public one: the
\* index's deleteByPrefix is called with the total prefix and calls delete for
\* each key it knows that starts with it.
CursorDeleteByPrefix(c, prefix) ==
    LET total  == TotalPrefix(cursor[c].path, prefix)
        issued == KeysWithPrefix(files[cursor[c].index], total)
    IN  /\ cursor[c].index = Sys
        /\ callsMade < MaxCalls
        /\ callsMade' = callsMade + 1
        /\ removes' = removes \cup issued
        /\ scenario' = [kind |-> "deleteByPrefix", prefix |-> total, issued |-> issued]
        /\ lastOp' = OpResult("cursorDeleteByPrefix", c, prefix, total)
        /\ NoCalls
        /\ UNCHANGED <<files, metadataListeners, childrenListeners, childrenLastNotified,
                       loading, loadingListeners, networkErrors, networkErrorListeners,
                       cursor, refreshes, now, remote, puts, listings, inflight,
                       connection, docvars>>

\* uploadChild(childPath, contents) of a cursor with fields cur: the Storage.put
\* that upload of its index starts.
UploadChild(cur, childPath, contents) ==
    LET path == EnsurePathEndsWithSlash(cur.path) \o childPath
    IN  [index |-> cur.index, path |-> path, body |-> contents,
         file |-> FileMetadata(path, now, Len(contents))]

\* upload(contents) on cursor c: the index's upload is called with the path of
\* the cursor.
CursorUpload(c, contents) ==
    LET path == cursor[c].path
    IN  /\ callsMade < MaxCalls
        /\ callsMade' = callsMade + 1
        /\ puts' = puts \cup {[index |-> cursor[c].index, path |-> path, body |-> contents,
                               file |-> FileMetadata(path, now, Len(contents))]}
        /\ lastOp' = OpResult("cursorUpload", c, <<>>, path)
        /\ NoCalls
        /\ UNCHANGED <<files, metadataListeners, childrenListeners, childrenLastNotified,
                       loading, loadingListeners, networkErrors, networkErrorListeners,
                       cursor, refreshes, now, remote, removes, listings, inflight,
                       scenario, connection, docvars>>

\* uploadChild(childPath, contents) on cursor c.
CursorUploadChild(c, childPath, contents) ==
    LET put == UploadChild(cursor[c], childPath, contents)
    IN  /\ callsMade < MaxCalls
        /\ callsMade' = callsMade + 1
        /\ puts' = puts \cup {put}
        /\ lastOp' = OpResult("uploadChild", c, childPath, put.path)
        /\ NoCalls
        /\ UNCHANGED <<files, metadataListeners, childrenListeners, childrenLastNotified,
                       loading, loadingListeners, networkErrors, networkErrorListeners,
                       cursor, refreshes, now, remote, removes, listings, inflight,
                       scenario, connection, docvars>>

\* delete() on cursor c, whose index is the public one.
CursorDelete(c) ==
    /\ cursor[c].index = Sys
    /\ callsMade < MaxCalls
    /\ callsMade' = callsMade + 1
    /\ removes' = removes \cup {cursor[c].path}
    /\ lastOp' = OpResult("cursorDelete", c, <<>>, cursor[c].path)
    /\ NoCalls
    /\ UNCHANGED <<files, metadataListeners, childrenListeners, childrenLastNotified,
                   loading, loadingListeners, networkErrors, networkErrorListeners,
                   cursor, refreshes, now, remote, puts, listings, inflight,
                   scenario, connection, docvars>>

\* deleteChild(childPath) on cursor c, whose index is the public one.
CursorDeleteChild(c, childPath) ==
    LET myPath == EnsurePathEndsWithSlash(cursor[c].path)
    IN  /\ cursor[c].index = Sys
        /\ callsMade < MaxCalls
        /\ callsMade' = callsMade + 1
        /\ removes' = removes \cup {myPath \o childPath}
        /\ lastOp' = OpResult("deleteChild", c, childPath, myPath \o childPath)
        /\ NoCalls
        /\ UNCHANGED <<files, metadataListeners, childrenListeners, childrenLastNotified,
                       loading, loadingListeners, networkErrors, networkErrorListeners,
                       cursor, refreshes, now, remote, puts, listings, inflight,
                       scenario, connection, docvars>>

(* The state after construction: each index empty and loading (with its    *)
(* first fullRefresh in flight when runNetworkSetup is set), each cursor   *)
(* constructed on an index at a path.                                      *)
(***************************************************************************)
NewCursor(i, path) ==
    [index |-> i, path |-> path, metadata |-> Null, children |-> EmptyMap,
     loading |-> TRUE, networkErrors |-> <<>>]

CursorsBuiltOn(i, at) ==
    LET cs == {c \in Cursors : at[c][1] = i}
    IN  IF cs = {} THEN <<>> ELSE CHOOSE q \in Perms(cs) : TRUE

ListenersOf(i, at) ==
    LET ps == {at[c][2] : c \in {d \in Cursors : at[d][1] = i}}
    IN  [p \in ps |-> LET cs == {c \in Cursors : at[c] = <<i, p>>}
                      IN  CHOOSE q \in Perms(cs) : TRUE]

ConstructedOver(at, runNetworkSetup, objects) ==
    /\ files = [i \in Indexes |-> EmptyMap]
    /\ metadataListeners = [i \in Indexes |-> ListenersOf(i, at)]
    /\ childrenListeners = [i \in Indexes |-> ListenersOf(i, at)]
    /\ childrenLastNotified = [i \in Indexes |-> EmptyMap]
    /\ loading = [i \in Indexes |-> TRUE]
    /\ loadingListeners = [i \in Indexes |-> CursorsBuiltOn(i, at)]
    /\ networkErrors = [i \in Indexes |-> EmptyMap]
    /\ networkErrorListeners = [i \in Indexes |-> CursorsBuiltOn(i, at)]
    /\ cursor = [c \in Cursors |-> NewCursor(at[c][1], at[c][2])]
    /\ refreshes = [i \in Indexes |-> IF runNetworkSetup THEN 1 ELSE 0]
    /\ lastOp = Op("constructed", "", <<>>, 0)
    /\ metaCalls = ZeroCalls
    /\ childCalls = ZeroCalls
    /\ loadingCalls = ZeroCalls
    /\ errorCalls = ZeroCalls
    /\ now = 1
    /\ remote = objects
    /\ puts = {}
    /\ removes = {}
    /\ listings = <<>>
    /\ inflight = {}
    /\ callsMade = 0
    /\ connection = [i \in Indexes |-> "none"]
    /\ jsonFiles = [c \in Cursors |-> EmptyMap]
    /\ timers = {}
    /\ downloads = <<>>
    /\ pathChangedCalls = ZeroCalls
    /\ uploads = {}
    /\ changeCalls = ZeroChangeCalls

\* The same with S3 holding nothing yet.
Constructed(at, runNetworkSetup) == ConstructedOver(at, runNetworkSetup, EmptyMap)

\* Two cursors on the public index, re-pointed with setPath while update and
\* delete events reach the index.
InitCursor ==
    \E at \in [Cursors -> {"public"} \X CursorPaths], runNetworkSetup \in BOOLEAN :
        Constructed(at, runNetworkSetup) /\ scenario = NoScenario

NextCursor ==
    \/ \E c \in Cursors, path \in CursorPaths : SetPath(c, path)
    \/ \E file \in CursorFiles : OnReceivedPubSubUpdate("public", file)
    \/ \E key \in CursorKeys : OnReceivedPubSubDelete("public", key)

SpecCursor == InitCursor /\ [][NextCursor]_vars

\* The public index with its partition of S3 and its PubSub channel; both cursors
\* stay where they were built.
SysKeys == {<<"a", "/", "x">>}

Init ==
    /\ Constructed([c \in Cursors |-> <<Sys, IF c = "c1" THEN <<>> ELSE <<"a">> >>], TRUE)
    /\ scenario = NoScenario

Next ==
    \/ Tick
    \/ \E path \in SysKeys, size \in Sizes : Upload(path, size)
    \/ \E put \in puts : PutThen(put)
    \/ \E path \in SysKeys : Delete(path)
    \/ \E prefix \in {<<"a">>, <<"b">>} : DeleteByPrefix(prefix)
    \/ \E path \in removes : RemoveThen(path)
    \/ \E msg \in inflight, keep \in BOOLEAN : ReceiveMessage(msg, keep)
    \/ FullRefresh
    \/ StorageList
    \/ \E j \in 1..Len(listings) : FullRefreshThen(j)

Spec == Init /\ [][Next]_vars

\* The same system when the calls of Storage may fail and the socket may lose and
\* regain its connection.
NextFail ==
    \/ Tick
    \/ \E path \in SysKeys : Upload(path, 1)
    \/ \E put \in puts : PutThen(put)
    \/ \E path \in SysKeys : Delete(path)
    \/ \E path \in removes : RemoveThen(path)
    \/ \E msg \in inflight : ReceiveMessage(msg, FALSE)
    \/ FullRefresh
    \/ StorageList
    \/ \E j \in 1..Len(listings) : FullRefreshThen(j)
    \/ \E put \in puts : PutCatch(put)
    \/ \E path \in removes : RemoveCatch(path)
    \/ FullRefreshCatch
    \/ \E connected \in BOOLEAN : ConnectionChanged(connected)

SpecFail == Init /\ [][NextFail]_vars

\* Cursor c1 re-pointed with setPath and setIndex across both indexes, cursor c2
\* staying where it was built, while events reach both indexes.
RepointKeys == {<<"a", "/", "x">>}

RepointFiles == {FileMetadata(k, 1, 1) : k \in RepointKeys}

InitRepoint ==
    \E at \in [Cursors -> Indexes \X CursorPaths] :
        Constructed(at, FALSE) /\ scenario = NoScenario

NextRepoint ==
    \/ \E path \in CursorPaths : SetPath("c1", path)
    \/ \E index \in Indexes : SetIndex("c1", index)
    \/ \E i \in Indexes, file \in RepointFiles : OnReceivedPubSubUpdate(i, file)
    \/ \E i \in Indexes, key \in RepointKeys : OnReceivedPubSubDelete(i, key)

SpecRepoint == InitRepoint /\ [][NextRepoint]_vars

\* The children of paths: cursor c1 is re-pointed with setPath while update and
\* delete events reach the public index, for keys that have a path as a prefix
\* with and without the separator, among them the empty key (the object named by
\* globalPrefix itself, a folder marker) and the marker a/.
ChildKeys ==
    {<<>>, <<"a">>, <<"a", "/">>, <<"a", "/", "x">>, <<"a", "/", "y">>, <<"a", "b">>, <<"b">>}

ChildFiles == {FileMetadata(k, 1, 1) : k \in ChildKeys}

InitChildren ==
    /\ \E path \in CursorPaths :
          Constructed([c \in Cursors |-> <<"public", IF c = "c1" THEN path ELSE <<>> >>], FALSE)
    /\ scenario = NoScenario

NextChildren ==
    \/ \E path \in CursorPaths : SetPath("c1", path)
    \/ \E file \in ChildFiles : OnReceivedPubSubUpdate("public", file)
    \/ \E key \in ChildKeys : OnReceivedPubSubDelete("public", key)

SpecChildren == InitChildren /\ [][NextChildren]_vars

(***************************************************************************)
(* Delivery scenarios: events drawn at the start reach an index through     *)
(* _onReceivedPubSubUpdate and _onReceivedPubSubDelete in a chosen order.  *)
(***************************************************************************)
EventKey == <<"a", "/", "x">>

UpdateEvents ==
    {[type |-> "update", file |-> FileMetadata(EventKey, t, s)] :
        t \in EventTimes, s \in Sizes}

DeleteEvents == {[type |-> "delete", key |-> EventKey]}

\* The subscription callback an event goes to, and through it the merge primitive.
ApplyEvent(w, e) ==
    IF e.type = "update"
    THEN UpdateFileInIndex(w, e.file)
    ELSE DeleteFileInIndex(w, e.key)

EventOp(i, e) ==
    IF e.type = "update"
    THEN Op("update", i, e.file.key, e.file.lastModified)
    ELSE Op("delete", i, e.key, 0)

\* Convergence: a set of update events for EventKey with pairwise distinct
\* timestamps is delivered to the public index, one event at a time, in any order.
DistinctTimestamps(S) ==
    \A e, f \in S : e.file.lastModified = f.file.lastModified => e = f

InitConv ==
    /\ \E at \in [Cursors -> {"public"} \X CursorPaths] : Constructed(at, FALSE)
    /\ \E S \in SUBSET UpdateEvents :
          /\ S # {}
          /\ DistinctTimestamps(S)
          /\ scenario = [kind |-> "conv", events |-> S, pending |-> S]

DeliverPending(e) ==
    /\ e \in scenario.pending
    /\ Commit("public", ApplyEvent(World("public"), e))
    /\ lastOp' = EventOp("public", e)
    /\ scenario' = [scenario EXCEPT !.pending = @ \ {e}]
    /\ UNCHANGED <<refreshes, now, remote, puts, removes, listings, inflight, callsMade,
                   connection, docvars>>

NextConv == \E e \in UpdateEvents : DeliverPending(e)

SpecConv == InitConv /\ [][NextConv]_vars

\* Order of delivery: each index first receives the seed (if there is one), which
\* brings it to the index state of the scenario; then the public index receives
\* the two events as first, second and the protected index as second, first.
NoEvent == [type |-> "none"]

Order(i) ==
    IF i = "public"
    THEN <<scenario.seed, scenario.first, scenario.second>>
    ELSE <<scenario.seed, scenario.second, scenario.first>>

InitMerge ==
    /\ Constructed([c \in Cursors |-> <<IF c = "c1" THEN "public" ELSE "protected", <<"a">> >>],
                   FALSE)
    /\ \E seed \in UpdateEvents \cup {NoEvent},
          first \in UpdateEvents \cup DeleteEvents,
          second \in UpdateEvents \cup DeleteEvents :
          scenario = [kind |-> "merge", seed |-> seed, first |-> first, second |-> second,
                      step |-> [i \in Indexes |-> IF seed = NoEvent THEN 1 ELSE 0]]

DeliverInOrder(i) ==
    /\ scenario.step[i] < 3
    /\ LET e == Order(i)[scenario.step[i] + 1]
       IN  /\ Commit(i, ApplyEvent(World(i), e))
           /\ lastOp' = EventOp(i, e)
    /\ scenario' = [scenario EXCEPT !.step[i] = @ + 1]
    /\ UNCHANGED <<refreshes, now, remote, puts, removes, listings, inflight, callsMade,
                   connection, docvars>>

NextMerge == \E i \in Indexes : DeliverInOrder(i)

SpecMerge == InitMerge /\ [][NextMerge]_vars

(***************************************************************************)
(* The JSON documents of a cursor.  Cursor c1 owns a document under the    *)
(* child path m; it is re-pointed between '' (where the document has no    *)
(* file) and 'a' while update events list the file a/m, the clock          *)
(* advances, attributes are set, upload timers fire and downloads come     *)
(* back.  The indexes are built with runNetworkSetup = false, so           *)
(* globalPrefix is '' and the events are handed to the handlers directly.  *)
(***************************************************************************)
MaxDownloads == 2

JsonPath == <<"m">>

JsonCursorPaths == {<<>>, <<"a">>}

JsonKeys == {<<"a", "/", "m">>}

JsonFiles == {FileMetadata(k, 1, 1) : k \in JsonKeys}

\* The texts a download can come back with: an object of two members, and two
\* texts that JSON.parse rejects, an object cut off after its first member and
\* the empty text.
Texts == {<<"{", "k", ":", "1", ",", "j", ":", "2", "}">>,
          <<"{", "k", ":", "1", ",">>,
          <<>>}

\* What lastOp records of a handler that was given, or produced, a text.
OpWithText(kind, on, key, text) ==
    [kind |-> kind, on |-> on, key |-> key, time |-> 0, outcome |-> "none",
     text |-> text]

\* getJsonFile(path): the document is built (its constructor runs pathChanged)
\* unless the cursor has it already.
GetJsonFile(c, path) ==
    LET st == PathChanged([docs |-> (path :> NewJsonFile) @@ jsonFiles[c],
                           downloads |-> downloads], c, cursor[c], path)
    IN  /\ IF path \in DOMAIN jsonFiles[c]
           THEN /\ UNCHANGED <<jsonFiles, downloads>>
                /\ pathChangedCalls' = ZeroCalls
           ELSE /\ jsonFiles' = [jsonFiles EXCEPT ![c] = st.docs]
                /\ downloads' = st.downloads
                /\ pathChangedCalls' = [ZeroCalls EXCEPT ![c] = 1]
        /\ lastOp' = Op("getJsonFile", c, path, 0)
        /\ NoListenerCalls
        /\ UNCHANGED <<files, metadataListeners, childrenListeners, childrenLastNotified,
                       loading, loadingListeners, networkErrors, networkErrorListeners,
                       cursor, refreshes, sysvars, timers, uploads>>

\* What a restartUploadTimer that left the pending timeout scheduled would do.
RestartUploadTimerKeepsPending(c, path, doc) ==
    LET id == CHOOSE n \in 1..(Cardinality(timers) + 1) : \A t \in timers : t.id # n
    IN  [timers |-> timers \cup {[id |-> id, cursor |-> c, path |-> path,
                                  due |-> now + DebounceDelay]},
         doc    |-> [doc EXCEPT !.pendingTimeout = [handle |-> id]]]

\* restartUploadTimer: clearTimeout of the pending timeout, then setTimeout, which
\* hands out a handle no scheduled timeout has.
RestartUploadTimer(c, path, doc) ==
    LET kept == IF doc.pendingTimeout # Null
                THEN {t \in timers : t.id # doc.pendingTimeout.handle}
                ELSE timers
        id   == CHOOSE n \in 1..(Cardinality(kept) + 1) : \A t \in kept : t.id # n
    IN  [timers |-> kept \cup {[id |-> id, cursor |-> c, path |-> path,
                                due |-> now + DebounceDelay]},
         doc    |-> [doc EXCEPT !.pendingTimeout = [handle |-> id]]]

\* setAttribute(key, value) on the document of cursor c at path.
SetAttribute(c, path, key, value) ==
    /\ path \in DOMAIN jsonFiles[c]
    /\ LET doc == [jsonFiles[c][path] EXCEPT !.values = MapSet(@, key, value)]
           r   == RestartUploadTimer(c, path, doc)
       IN  /\ jsonFiles' = [jsonFiles EXCEPT ![c][path] = r.doc]
           /\ timers' = r.timers
    /\ lastOp' = Op("setAttribute", c, path, 0)
    /\ NoCalls
    /\ UNCHANGED <<files, metadataListeners, childrenListeners, childrenLastNotified,
                   loading, loadingListeners, networkErrors, networkErrorListeners,
                   cursor, refreshes, sysvars, downloads, uploads>>

\* The callback restartUploadTimer gave to setTimeout runs, the delay over: the
\* put it starts carries the document whose .then callback waits for the upload.
TimerFires(t) ==
    /\ t \in timers
    /\ now >= t.due
    /\ callsMade < MaxCalls
    /\ callsMade' = callsMade + 1
    /\ LET json == JsonStringify(jsonFiles[t.cursor][t.path].values)
       IN  /\ puts' = puts \cup {UploadChild(cursor[t.cursor], t.path, json)
                                  @@ [doc |-> [cursor |-> t.cursor, path |-> t.path]]}
           /\ lastOp' = OpWithText("timerFired", t.cursor, t.path, json)
    /\ timers' = timers \ {t}
    /\ jsonFiles' = [jsonFiles EXCEPT ![t.cursor][t.path].pendingTimeout = Null]
    /\ NoCalls
    /\ UNCHANGED <<files, metadataListeners, childrenListeners, childrenLastNotified,
                   loading, loadingListeners, networkErrors, networkErrorListeners,
                   cursor, refreshes, now, remote, removes, listings, inflight, scenario,
                   connection, downloads, uploads>>

\* addChangeListener(listener) on the document of cursor c at path.
AddChangeListener(c, path, listener) ==
    /\ path \in DOMAIN jsonFiles[c]
    /\ Len(jsonFiles[c][path].changeListeners) < MaxListeners
    /\ jsonFiles' = [jsonFiles EXCEPT ![c][path].changeListeners = Append(@, listener)]
    /\ lastOp' = Op("addChangeListener", c, path, 0)
    /\ NoCalls
    /\ UNCHANGED <<files, metadataListeners, childrenListeners, childrenLastNotified,
                   loading, loadingListeners, networkErrors, networkErrorListeners,
                   cursor, refreshes, sysvars, timers, downloads, uploads>>

\* Storage.put of a document's upload resolved: the 'Upload' error is cleared and
\* updatedFile is published, by the .then callback of the put, by completeCallback,
\* or by both (callbacks publishes); each publish resolves the promise of upload
\* when it succeeds.
DocPutThen(put, callbacks) ==
    /\ put \in puts
    /\ puts' = puts \ {put}
    /\ remote' = IF put.index = Sys
                 THEN (put.path :> FileMetadata(put.path, now, put.file.size)) @@ remote
                 ELSE remote
    /\ Commit(put.index, UploadThen(World(put.index), put.file))
    /\ uploads' = uploads \cup {[put |-> put, publishing |-> callbacks, settled |-> FALSE]}
    /\ lastOp' = Settled(Op("docPutThen", put.doc.cursor, put.doc.path, 0), "resolved")
    /\ UNCHANGED <<refreshes, now, removes, listings, inflight, callsMade, scenario,
                   connection, jsonFiles, timers, downloads>>

\* Storage.put of a document's upload rejected: the 'Upload' error is recorded and
\* the promise of upload is rejected, which restartUploadTimer does not handle.
DocPutCatch(put) ==
    /\ put \in puts
    /\ puts' = puts \ {put}
    /\ Commit(put.index, UploadCatch(World(put.index)))
    /\ lastOp' = Settled(Op("docPutCatch", put.doc.cursor, put.doc.path, 0), "rejected")
    /\ UNCHANGED <<refreshes, now, remote, removes, listings, inflight, callsMade, scenario,
                   connection, docvars>>

\* What a promise that ran its .then callback at every resolve() would do.
ThenCallbackOnEveryResolve(upload, doc) ==
    [listener \in ChangeListeners |-> Count(doc.changeListeners, listener)]

\* The .then callback restartUploadTimer gave to the promise of uploadChild, when
\* resolve() is called: the promise settles once, and its callback then calls each
\* entry of changeListeners.
ThenCallback(upload, doc) ==
    IF upload.settled THEN ZeroChangeCalls
    ELSE [listener \in ChangeListeners |-> Count(doc.changeListeners, listener)]

\* What is left of an upload when one of its publishes has settled.
AfterPublish(upload, resolved) ==
    IF upload.publishing = 1 THEN uploads \ {upload}
    ELSE (uploads \ {upload})
            \cup {[upload EXCEPT !.publishing = @ - 1, !.settled = @ \/ resolved]}

\* socket.publish of an upload resolved: .then(() => resolve()).
PublishThen(upload) ==
    /\ upload \in uploads
    /\ changeCalls' = ThenCallback(upload,
                         jsonFiles[upload.put.doc.cursor][upload.put.doc.path])
    /\ uploads' = AfterPublish(upload, TRUE)
    /\ lastOp' = Settled(Op("publishThen", upload.put.doc.cursor, upload.put.doc.path, 0),
                         "resolved")
    /\ metaCalls' = ZeroCalls /\ childCalls' = ZeroCalls /\ loadingCalls' = ZeroCalls
    /\ errorCalls' = ZeroCalls /\ pathChangedCalls' = ZeroCalls
    /\ UNCHANGED <<files, metadataListeners, childrenListeners, childrenLastNotified,
                   loading, loadingListeners, networkErrors, networkErrorListeners,
                   cursor, refreshes, sysvars, jsonFiles, timers, downloads>>

\* socket.publish of an upload rejected: nothing handles it.
PublishCatch(upload) ==
    /\ upload \in uploads
    /\ uploads' = AfterPublish(upload, FALSE)
    /\ lastOp' = Settled(Op("publishCatch", upload.put.doc.cursor, upload.put.doc.path, 0),
                         "rejected")
    /\ NoCalls
    /\ UNCHANGED <<files, metadataListeners, childrenListeners, childrenLastNotified,
                   loading, loadingListeners, networkErrors, networkErrorListeners,
                   cursor, refreshes, sysvars, jsonFiles, timers, downloads>>

Without(seq, j) == [n \in 1..(Len(seq) - 1) |-> IF n < j THEN seq[n] ELSE seq[n + 1]]

\* Storage.get of the j-th download resolved with a body holding text: .then of
\* the index's downloadText, then the .then callback of pathChanged.
DownloadThen(j, text) ==
    /\ j \in 1..Len(downloads)
    /\ LET d == downloads[j]
       IN  /\ Commit(d.index, ClearNetworkError(World(d.index), "Get"))
           /\ jsonFiles' = [jsonFiles EXCEPT ![d.cursor][d.path] = PathChangedThen(@, text)]
           /\ lastOp' = Settled(OpWithText("downloadThen", d.cursor, d.path, text), "resolved")
    /\ downloads' = Without(downloads, j)
    /\ UNCHANGED <<refreshes, sysvars, timers, uploads>>

\* Storage.get of the j-th download rejected, or (noBody) resolved with a result
\* that has no Body, which makes .then throw after it cleared the 'Get' error:
\* .catch of the index's downloadText records the error and returns '', which
\* the .then callback of pathChanged is given.
DownloadCatch(j, noBody) ==
    /\ j \in 1..Len(downloads)
    /\ LET d == downloads[j]
           w == IF noBody THEN ClearNetworkError(World(d.index), "Get") ELSE World(d.index)
       IN  /\ Commit(d.index, SetNetworkError(w, "Get", GetMessage))
           /\ jsonFiles' = [jsonFiles EXCEPT ![d.cursor][d.path] = PathChangedThen(@, <<>>)]
           /\ lastOp' = Settled(Op("downloadCatch", d.cursor, d.path, 0), "resolved")
    /\ downloads' = Without(downloads, j)
    /\ UNCHANGED <<refreshes, sysvars, timers, uploads>>

InitJson ==
    /\ Constructed([c \in Cursors |-> <<"public", <<>> >>], FALSE)
    /\ scenario = NoScenario

NextJson ==
    \/ \E path \in JsonCursorPaths : Len(downloads) < MaxDownloads /\ SetPath("c1", path)
    \/ Len(downloads) < MaxDownloads /\ GetJsonFile("c1", JsonPath)
    \/ \E value \in {"2", "3"} : SetAttribute("c1", JsonPath, "k", value)
    \/ Tick
    \/ \E t \in timers : TimerFires(t)
    \/ \E j \in 1..Len(downloads), text \in Texts : DownloadThen(j, text)
    \/ \E j \in 1..Len(downloads), noBody \in BOOLEAN : DownloadCatch(j, noBody)
    \/ \E file \in JsonFiles : OnReceivedPubSubUpdate("public", file)

SpecJson == InitJson /\ [][NextJson]_vars

\* Re-pointing a cursor that owns a document: c1 is moved between the paths and
\* between the indexes while update events list the file a/m on either index
\* and the downloads come back with an object.
NextJsonRepoint ==
    \/ \E path \in JsonCursorPaths : Len(downloads) < MaxDownloads /\ SetPath("c1", path)
    \/ \E index \in Indexes : SetIndex("c1", index)
    \/ Len(downloads) < MaxDownloads /\ GetJsonFile("c1", JsonPath)
    \/ \E j \in 1..Len(downloads) : DownloadThen(j, <<"{", "k", ":", "1", "}">>)
    \/ \E i \in Indexes, file \in JsonFiles : OnReceivedPubSubUpdate(i, file)

SpecJsonRepoint == InitJson /\ [][NextJsonRepoint]_vars

(***************************************************************************)
(* The queries of a cursor on its cached children.  Cursor c1 stays at ''  *)
(* on the public index while update events list, resize and re-date the    *)
(* files fo/x, fo/y and fox; the queries are called on it and lastOp       *)
(* records what they return.                                               *)
(***************************************************************************)
QueryKeys == {<<"f", "o", "/", "x">>, <<"f", "o", "/", "y">>, <<"f", "o", "x">>}

QueryFiles == {FileMetadata(k, t, s) : k \in QueryKeys, t \in Times, s \in Sizes}

QueryNames == {<<"f", "o">>, <<"f", "o", "/">>, <<"f">>, <<"f", "o", "x">>, <<>>}

QueryNameLists ==
    {<<>>} \cup {<<n>> : n \in QueryNames}
           \cup {<<<<"f", "o">>, n>> : n \in {<<"f", "o", "x">>, <<"f">>}}

CallHasChildren(c, childNames) ==
    /\ lastOp' = OpResult("hasChildren", c, childNames,
                          HasChildren(cursor[c].children, childNames))
    /\ NoCalls
    /\ UNCHANGED <<files, metadataListeners, childrenListeners, childrenLastNotified,
                   loading, loadingListeners, networkErrors, networkErrorListeners,
                   cursor, refreshes, sysvars, docvars>>

CallHasAnyChildren(c) ==
    /\ lastOp' = OpResult("hasAnyChildren", c, <<>>, HasAnyChildren(cursor[c].children))
    /\ NoCalls
    /\ UNCHANGED <<files, metadataListeners, childrenListeners, childrenLastNotified,
                   loading, loadingListeners, networkErrors, networkErrorListeners,
                   cursor, refreshes, sysvars, docvars>>

CallGetChildrenOf(c, childPath) ==
    /\ lastOp' = OpResult("getChildrenOf", c, childPath,
                          GetChildrenOf(cursor[c].children, childPath))
    /\ NoCalls
    /\ UNCHANGED <<files, metadataListeners, childrenListeners, childrenLastNotified,
                   loading, loadingListeners, networkErrors, networkErrorListeners,
                   cursor, refreshes, sysvars, docvars>>

CallGetImmediateChildFolders(c, of, order) ==
    /\ order \in Perms(DOMAIN cursor[c].children)
    /\ lastOp' = OpResult("getImmediateChildFolders", c, of,
                          GetImmediateChildFolders(cursor[c].children, of, order))
    /\ NoCalls
    /\ UNCHANGED <<files, metadataListeners, childrenListeners, childrenLastNotified,
                   loading, loadingListeners, networkErrors, networkErrorListeners,
                   cursor, refreshes, sysvars, docvars>>

InitQueries ==
    /\ Constructed([c \in Cursors |-> <<"public", <<>> >>], FALSE)
    /\ scenario = NoScenario

NextQueries ==
    \/ \E file \in QueryFiles : OnReceivedPubSubUpdate("public", file)
    \/ \E childNames \in QueryNameLists : CallHasChildren("c1", childNames)
    \/ CallHasAnyChildren("c1")
    \/ \E childPath \in {<<"f", "o">>, <<"f", "o", "/">>, <<"f">>} :
          CallGetChildrenOf("c1", childPath)
    \/ \E of \in {<<>>, <<"f", "o">>, <<"f", "o", "/">>, <<"f">>} :
          \E order \in Perms(DOMAIN cursor["c1"].children) :
             CallGetImmediateChildFolders("c1", of, order)

SpecQueries == InitQueries /\ [][NextQueries]_vars

(***************************************************************************)
(* Prefix deletion.  S3 holds some of the objects a/x, a/y, ab and b when  *)
(* the public index is built; its first listing arrives, one cursor (c1 at *)
(* '', c2 at 'a') calls deleteByPrefix once, every Storage.remove succeeds *)
(* and the delete events come back.                                        *)
(***************************************************************************)
PrefixKeys == {<<"a", "/", "x">>, <<"a", "/", "y">>, <<"a", "b">>, <<"b">>}

InitPrefix ==
    \E keys \in SUBSET PrefixKeys :
        /\ ConstructedOver([c \in Cursors |-> <<Sys, IF c = "c1" THEN <<>> ELSE <<"a">> >>],
                           TRUE, [k \in keys |-> FileMetadata(k, 1, 1)])
        /\ scenario = NoScenario

NextPrefix ==
    \/ StorageList
    \/ \E j \in 1..Len(listings) : FullRefreshThen(j)
    \/ \E prefix \in {<<"a">>, <<"a", "/">>, <<"b">>} :
          scenario = NoScenario /\ CursorDeleteByPrefix("c1", prefix)
    \/ \E prefix \in {<<"x">>, <<>>} :
          scenario = NoScenario /\ CursorDeleteByPrefix("c2", prefix)
    \/ \E path \in removes : RemoveThen(path)
    \/ \E msg \in inflight : ReceiveMessage(msg, FALSE)

SpecPrefix == InitPrefix /\ [][NextPrefix]_vars

(***************************************************************************)
(* The mutations a cursor forwards to its index.  Cursor c1 is moved       *)
(* between the paths '', 'a' and 'a/' of the public index, whose files     *)
(* a/x and a/x/y update events list, and uploads and deletes are called on *)
(* it.                                                                     *)
(***************************************************************************)
ForwardPaths == {<<>>, <<"a">>, <<"a", "/">>}

ForwardChildren == {<<"x">>, <<"x", "/", "y">>}

ForwardFiles == {FileMetadata(<<"a", "/">> \o child, 1, 1) : child \in ForwardChildren}

Contents == <<"{", "}">>

InitForward ==
    /\ Constructed([c \in Cursors |-> <<Sys, <<>> >>], FALSE)
    /\ scenario = NoScenario

NextForward ==
    \/ \E path \in ForwardPaths : SetPath("c1", path)
    \/ \E file \in ForwardFiles : OnReceivedPubSubUpdate(Sys, file)
    \/ CursorUpload("c1", Contents)
    \/ \E childPath \in ForwardChildren : CursorUploadChild("c1", childPath, Contents)
    \/ CursorDelete("c1")
    \/ \E childPath \in ForwardChildren : CursorDeleteChild("c1", childPath)
    \/ \E prefix \in ForwardChildren : CursorDeleteByPrefix("c1", prefix)

SpecForward == InitForward /\ [][NextForward]_vars

(***************************************************************************)
(* Topics.  A path is put together from up to MaxSegments segments, the    *)
(* n-th made of the n-th letter of SegmentLetters, with lengths around the *)
(* limit; makeTopicPubSubSafe is applied to it, and to the topics upload   *)
(* and delete of the public index build from it.                           *)
(***************************************************************************)
MaxSegments == 3

SegmentLengths == {0, 1, 39, 40, 64, 65, 79, 80, 81, 100}

SegmentLetters == <<"a", "b", "c", "d", "e">>

RECURSIVE JoinSegments(_, _)
\* The segments from the n-th on, of the given lengths, joined with '/'.
JoinSegments(lengths, n) ==
    IF n > Len(lengths) THEN <<>>
    ELSE (IF n > 1 THEN <<"/">> ELSE <<>>)
            \o [j \in 1..lengths[n] |-> SegmentLetters[n]]
            \o JoinSegments(lengths, n + 1)

TopicPaths ==
    {JoinSegments(lengths, 1) :
        lengths \in UNION {[1..n -> SegmentLengths] : n \in 1..MaxSegments}}

CallMakeTopicPubSubSafe ==
    /\ lastOp' = OpResult("makeTopicPubSubSafe", "none", scenario.path,
                          MakeTopicPubSubSafe(scenario.path))
    /\ NoCalls
    /\ UNCHANGED <<files, metadataListeners, childrenListeners, childrenLastNotified,
                   loading, loadingListeners, networkErrors, networkErrorListeners,
                   cursor, refreshes, sysvars, docvars>>

CallUploadTopic ==
    /\ lastOp' = OpResult("uploadTopic", Sys, scenario.path, UploadTopic(scenario.path))
    /\ NoCalls
    /\ UNCHANGED <<files, metadataListeners, childrenListeners, childrenLastNotified,
                   loading, loadingListeners, networkErrors, networkErrorListeners,
                   cursor, refreshes, sysvars, docvars>>

CallDeleteTopic ==
    /\ lastOp' = OpResult("deleteTopic", Sys, scenario.path, DeleteTopic(scenario.path))
    /\ NoCalls
    /\ UNCHANGED <<files, metadataListeners, childrenListeners, childrenLastNotified,
                   loading, loadingListeners, networkErrors, networkErrorListeners,
                   cursor, refreshes, sysvars, docvars>>

InitTopic ==
    /\ Constructed([c \in Cursors |-> <<Sys, <<>> >>], FALSE)
    /\ \E path \in TopicPaths : scenario = [kind |-> "topic", path |-> path]

NextTopic ==
    \/ CallMakeTopicPubSubSafe
    \/ CallUploadTopic
    \/ CallDeleteTopic

SpecTopic == InitTopic /\ [][NextTopic]_vars

(***************************************************************************)
(* The echo of a mutation.  The public index is subscribed, uploads and    *)
(* deletes of a/x succeed, listings are answered, and the channel delivers *)
(* every message published on it, once.                                    *)
(***************************************************************************)
EchoUpdates ==
    {[topic |-> "UPDATE", body |-> FileMetadata(GlobalPrefix \o path, time, size)] :
        path \in SysKeys, time \in Times, size \in Sizes}

EchoDeletes == {[topic |-> "DELETE", body |-> [key |-> GlobalPrefix \o path]] : path \in SysKeys}

NextEcho ==
    \/ Tick
    \/ \E path \in SysKeys, size \in Sizes : Upload(path, size)
    \/ \E put \in puts : PutThen(put)
    \/ \E path \in SysKeys : Delete(path)
    \/ \E path \in removes : RemoveThen(path)
    \/ \E msg \in inflight : ReceiveMessage(msg, FALSE)
    \/ StorageList
    \/ \E j \in 1..Len(listings) : FullRefreshThen(j)

\* A message leaves the channel; in NextEcho only ReceiveMessage, the callback of
\* the subscription, takes one out.
Delivered == inflight # {} /\ inflight' \in (SUBSET inflight) \ {inflight}

\* The channel delivers every published message: no message stays in it for ever.
SpecEcho ==
    /\ Init
    /\ [][NextEcho]_vars
    /\ WF_inflight(Delivered)

(***************************************************************************)
(* Change listeners.  Cursor c1 owns the document m; listeners are added   *)
(* to it, attributes are set, the timer fires, and the Storage.put and the *)
(* publishes of the upload succeed or fail.                                *)
(***************************************************************************)
NextListeners ==
    \/ GetJsonFile("c1", JsonPath)
    \/ \E listener \in ChangeListeners : AddChangeListener("c1", JsonPath, listener)
    \/ SetAttribute("c1", JsonPath, "k", "2")
    \/ Tick
    \/ \E t \in timers : TimerFires(t)
    \/ \E put \in puts, callbacks \in {1, 2} : DocPutThen(put, callbacks)
    \/ \E put \in puts : DocPutCatch(put)
    \/ \E upload \in uploads : PublishThen(upload)
    \/ \E upload \in uploads : PublishCatch(upload)

SpecListeners == InitJson /\ [][NextListeners]_vars

(***************************************************************************)
(* Re-pointing a cursor at another index while both indexes refresh: c1 is *)
(* built on the public index, c2 on the protected one, each index has the  *)
(* refresh of its constructor in flight, and refreshes succeed or fail.    *)
(***************************************************************************)
InitSetIndex ==
    /\ Constructed([c \in Cursors |-> <<IF c = "c1" THEN "public" ELSE "protected", <<>> >>],
                   TRUE)
    /\ scenario = NoScenario

NextSetIndex ==
    \/ \E index \in Indexes : SetIndex("c1", index)
    \/ \E i \in Indexes : FullRefreshOn(i)
    \/ \E i \in Indexes : FullRefreshThenOn(i)
    \/ \E i \in Indexes : FullRefreshCatchOn(i)

SpecSetIndex == InitSetIndex /\ [][NextSetIndex]_vars

(***************************************************************************)
(* A document's downloads and writes while its cursor is re-pointed: the   *)
(* files a/m and b/m hold different objects, c1 owns the document m and is *)
(* moved between '', a and b; setAttribute is called while c1 is at a.     *)
(* No put completes, so the files keep their contents.                     *)
(***************************************************************************)
DocCursorPaths == {<<>>, <<"a">>, <<"b">>}

WrittenAt == <<"a">>

DocFiles == {FileMetadata(k, 1, 1) : k \in {<<"a", "/", "m">>, <<"b", "/", "m">>}}

\* The body Storage.get returns for a file.
ContentOf(file) ==
    IF file = <<"a", "/", "m">> THEN <<"{", "k", ":", "1", "}">>
    ELSE <<"{", "j", ":", "2", "}">>

NextDocRace ==
    \/ \E path \in DocCursorPaths : Len(downloads) < MaxDownloads /\ SetPath("c1", path)
    \/ Len(downloads) < MaxDownloads /\ GetJsonFile("c1", JsonPath)
    \/ cursor["c1"].path = WrittenAt /\ SetAttribute("c1", JsonPath, "k", "3")
    \/ Tick
    \/ \E t \in timers : TimerFires(t)
    \/ \E j \in 1..Len(downloads) : DownloadThen(j, ContentOf(downloads[j].file))
    \/ \E file \in DocFiles : OnReceivedPubSubUpdate("public", file)

SpecDocRace == InitJson /\ [][NextDocRace]_vars

\* The same document when nothing is written to it and the cursor is re-pointed
\* only once the download of the previous re-point has completed.
NextDocMerge ==
    \/ \E path \in DocCursorPaths : downloads = <<>> /\ SetPath("c1", path)
    \/ downloads = <<>> /\ GetJsonFile("c1", JsonPath)
    \/ \E j \in 1..Len(downloads) : DownloadThen(j, ContentOf(downloads[j].file))
    \/ \E file \in DocFiles : OnReceivedPubSubUpdate("public", file)

SpecDocMerge == InitJson /\ [][NextDocMerge]_vars

\* The same document when it is written while a download is in flight: no
\* download starts while a write waits for its debounce timer, so a download
\* that completes then was started before the write.
NextWriteRace ==
    \/ \E path \in DocCursorPaths :
          timers = {} /\ Len(downloads) < MaxDownloads /\ SetPath("c1", path)
    \/ timers = {} /\ Len(downloads) < MaxDownloads /\ GetJsonFile("c1", JsonPath)
    \/ SetAttribute("c1", JsonPath, "k", "3")
    \/ Tick
    \/ \E t \in timers : TimerFires(t)
    \/ \E j \in 1..Len(downloads) : DownloadThen(j, ContentOf(downloads[j].file))
    \/ \E file \in DocFiles : OnReceivedPubSubUpdate("public", file)

SpecWriteRace == InitJson /\ [][NextWriteRace]_vars

(***************************************************************************)
(* C2.  A stale update is a silent no-op: an update event whose            *)
(* lastModified is less than or equal to that of the record stored for its *)
(* key leaves every index's files unchanged and calls no metadata listener *)
(* and no children listener.                                               *)
(***************************************************************************)
StaleUpdateIsSilent ==
    [][(/\ lastOp'.kind = "update"
        /\ lastOp'.key \in DOMAIN files[lastOp'.on]
        /\ files[lastOp'.on][lastOp'.key].lastModified >= lastOp'.time)
       => (/\ files' = files
           /\ metaCalls' = ZeroCalls
           /\ childCalls' = ZeroCalls)]_vars

\* A stale update of key b has just been received while a metadata listener is
\* registered on b and a children listener on the root, whose child b is.
StaleUpdateSeen ==
    /\ lastOp.kind = "update"
    /\ lastOp.key = <<"b">>
    /\ lastOp.key \in DOMAIN files[lastOp.on]
    /\ files[lastOp.on][lastOp.key].lastModified > lastOp.time
    /\ ListenersAt(metadataListeners[lastOp.on], <<"b">>) # <<>>
    /\ ListenersAt(childrenListeners[lastOp.on], <<>>) # <<>>

(***************************************************************************)
(* C5.  Cursor consistency: between dispatches every cursor holds          *)
(* metadata = index.getMetadata(path) and children =                       *)
(* index.getChildren(path) for its current index and path.                 *)
(***************************************************************************)
CursorConsistent ==
    \A c \in Cursors :
        /\ cursor[c].metadata = GetMetadata(files[cursor[c].index], cursor[c].path)
        /\ cursor[c].children = GetChildren(files[cursor[c].index], cursor[c].path)

(***************************************************************************)
(* C6.  Any two cursors pointing at the same path of the same index hold   *)
(* equal metadata and equal children snapshots.                            *)
(***************************************************************************)
CursorsAgree ==
    \A c, d \in Cursors :
        (cursor[c].index = cursor[d].index /\ cursor[c].path = cursor[d].path)
        => (/\ cursor[c].metadata = cursor[d].metadata
            /\ cursor[c].children = cursor[d].children)

(***************************************************************************)
(* C7.  No listener leak: on every index each cursor has exactly one       *)
(* metadata listener and one children listener if the index is its current *)
(* one, registered under its current path, and none otherwise; so the      *)
(* listener counts of an index equal the number of cursors pointing at it. *)
(***************************************************************************)
Registrations(L, c) == {p \in DOMAIN L : c \in Range(L[p])}

NoListenerLeakIn(L) ==
    \A i \in Indexes :
        /\ \A c \in Cursors :
              /\ Registrations(L[i], c) =
                    IF cursor[c].index = i THEN {cursor[c].path} ELSE {}
              /\ \A p \in Registrations(L[i], c) : Count(L[i][p], c) = 1
        /\ GetNumListeners(L[i]) = Cardinality({c \in Cursors : cursor[c].index = i})

NoListenerLeak ==
    /\ NoListenerLeakIn(metadataListeners)
    /\ NoListenerLeakIn(childrenListeners)

\* A cursor has just been moved to the protected index, having earlier been
\* registered under two other paths of the public index.
RepointedAcrossIndexes ==
    /\ lastOp.kind = "setIndex"
    /\ cursor["c1"].index = "protected"
    /\ {<<>>, <<"a">>} \subseteq DOMAIN metadataListeners["public"] \ {cursor["c2"].path}
    /\ {<<>>, <<"a">>} \subseteq DOMAIN childrenListeners["public"] \ {cursor["c2"].path}

(***************************************************************************)
(* C10.  No redundant children notification: an update event, delete event *)
(* or listing merge that does not change the children of a cursor's path   *)
(* does not call that cursor's children listener.                          *)
(***************************************************************************)
NoRedundantChildrenNotification ==
    [][\A c \in Cursors :
          (/\ lastOp'.kind \in {"update", "delete", "listing"}
           /\ GetChildren(files'[cursor[c].index], cursor[c].path)
                 = GetChildren(files[cursor[c].index], cursor[c].path))
          => childCalls'[c] = 0]_vars


(***************************************************************************)
(* C4.  The arrival order of a listing result relative to live events does *)
(* not change the final index; in particular a record merged from a live   *)
(* update event whose timestamp is newer than the moment the listing was   *)
(* taken is still present, with that timestamp, after the listing result   *)
(* is applied.                                                             *)
(***************************************************************************)
ListingKeepsNewerLiveRecords ==
    [][lastOp'.kind = "listing"
       => \A k \in DOMAIN files[Sys] :
             files[Sys][k].lastModified > lastOp'.time
             => (/\ k \in DOMAIN files'[Sys]
                 /\ files'[Sys][k].lastModified = files[Sys][k].lastModified)]_vars

(***************************************************************************)
(* C8.  The index's key -> record map is changed only by the two merge     *)
(* primitives: upload, delete and deleteByPrefix leave it unchanged at     *)
(* call time and at completion of the remote operation; it changes only    *)
(* when a pub/sub update or delete event is received or a listing result   *)
(* is applied.                                                             *)
(***************************************************************************)
MapChangedOnlyByMerge ==
    [][/\ lastOp'.kind \in {"upload", "putThen", "deleteCalled", "deleteByPrefix",
                            "removeThen"} => files' = files
       /\ files' # files
          => lastOp'.kind \in {"updateReceived", "deleteReceived", "listing"}]_vars

\* An upload has just completed on S3, which holds an object the index has not
\* merged yet.
UploadCompletedBeforeEvent ==
    /\ lastOp.kind = "putThen"
    /\ \E k \in DOMAIN remote : k \notin DOMAIN files[Sys]


(***************************************************************************)
(* C1.  Convergence: for a single key, delivering any permutation of a set *)
(* of update events with pairwise distinct lastModified timestamps to the  *)
(* index leaves the stored record for that key equal to the event with the *)
(* maximum timestamp.                                                      *)
(***************************************************************************)
ConvergesToMaximum ==
    scenario.pending = {}
    => \E e \in scenario.events :
          /\ \A f \in scenario.events : f.file.lastModified <= e.file.lastModified
          /\ GetMetadata(files["public"], EventKey) = e.file

\* Three events have all been delivered, the oldest of them last.
OldestDeliveredLast ==
    /\ scenario.pending = {}
    /\ Cardinality(scenario.events) = 3
    /\ lastOp.kind = "update"
    /\ \A f \in scenario.events : lastOp.time <= f.file.lastModified

(***************************************************************************)
(* C3.  Merge is commutative and idempotent regardless of delivery order:  *)
(* for any index state and any two incoming events for the same key (each  *)
(* an update or a delete, possibly a replayed duplicate), applying them in *)
(* either order yields the same final key -> record map.                   *)
(***************************************************************************)
BothOrdersDelivered == \A i \in Indexes : scenario.step[i] = 3

MergeCommutes ==
    BothOrdersDelivered => files["public"] = files["protected"]

(***************************************************************************)
(* C3, as amended.  For any index state and any two incoming update events *)
(* for the same key whose lastModified timestamps differ, or any event and *)
(* its replayed duplicate, applying them in either order yields the same   *)
(* final key -> record map, and delivering an event again right after it   *)
(* was delivered leaves the map unchanged.                                 *)
(***************************************************************************)
OrderIndependent(e, f) ==
    \/ e = f
    \/ /\ e.type = "update"
       /\ f.type = "update"
       /\ e.file.lastModified # f.file.lastModified

ReplayedAt(i) ==
    /\ scenario'.step[i] = scenario.step[i] + 1
    /\ scenario.step[i] >= 1
    /\ Order(i)[scenario.step[i]] = Order(i)[scenario.step[i] + 1]

MergeOfUpdatesCommutes ==
    /\ [](BothOrdersDelivered /\ OrderIndependent(scenario.first, scenario.second)
          => files["public"] = files["protected"])
    /\ [][\A i \in Indexes : ReplayedAt(i) => files' = files]_vars

\* The index held a record of timestamp 2; an update of timestamp 3 and one of
\* timestamp 1 have reached it in both orders.
UpdatesDeliveredBothWays ==
    /\ BothOrdersDelivered
    /\ scenario.seed # NoEvent
    /\ scenario.seed.file.lastModified = 2
    /\ scenario.first.type = "update"
    /\ scenario.first.file.lastModified = 3
    /\ scenario.second.type = "update"
    /\ scenario.second.file.lastModified = 1


(***************************************************************************)
(* C9.  In every reachable index state, for a non-empty path p not ending  *)
(* in '/', getChildren(p) is exactly the map { k with the prefix p+'/'     *)
(* removed |-> record(k) } over all stored keys k that start with p+'/'    *)
(* and are not equal to it, and getChildren('') returns every stored key   *)
(* unchanged with its record.                                              *)
(***************************************************************************)
ChildrenBelow(fs, p) ==
    LET q  == p \o <<"/">>
        ks == {k \in DOMAIN fs : StartsWith(k, q) /\ k # q}
    IN  [s \in {Substring(k, Len(q)) : k \in ks} |-> fs[q \o s]]

ChildrenOfNamedPaths ==
    \A p \in CursorPaths \ {<<>>} :
        GetChildren(files["public"], p) = ChildrenBelow(files["public"], p)

GetChildrenExact ==
    /\ ChildrenOfNamedPaths
    /\ GetChildren(files["public"], <<>>) = files["public"]

(***************************************************************************)
(* C9, as amended.  In every reachable index state, for a non-empty path p *)
(* not ending in '/', getChildren(p) is exactly the map { k with the       *)
(* prefix p+'/' removed |-> record(k) } over all stored keys k that start  *)
(* with p+'/' and are not equal to it, and getChildren('') returns every   *)
(* stored key other than the empty key unchanged with its record.          *)
(***************************************************************************)
GetChildrenExactButEmptyKey ==
    /\ ChildrenOfNamedPaths
    /\ GetChildren(files["public"], <<>>) =
          [k \in DOMAIN files["public"] \ {<<>>} |-> files["public"][k]]

\* The index holds a/x, a/y and b, and also the marker a/, the key a and the key
\* ab; cursor c1 has just been pointed at a and holds the children x and y.
ChildrenOfAListed ==
    /\ lastOp.kind = "setPath"
    /\ lastOp.key = <<"a">>
    /\ {<<"a">>, <<"a", "/">>, <<"a", "/", "x">>, <<"a", "/", "y">>, <<"a", "b">>, <<"b">>}
          \subseteq DOMAIN files["public"]
    /\ DOMAIN cursor["c1"].children = {<<"x">>, <<"y">>}


(***************************************************************************)
(* C11.  Listener dedup: with a children listener registered on 'a' and a  *)
(* record for a/x already merged, re-applying an update for a/x with       *)
(* identical metadata does not invoke the listener again, and applying an  *)
(* update for a/x with a different size invokes the listener exactly once. *)
(***************************************************************************)
\* The update scenario.first has just reached the public index, which held the
\* record scenario.seed; cursor c1 has its children listener on 'a' there.
FirstAfterSeed ==
    /\ scenario.seed # NoEvent
    /\ scenario.first.type = "update"
    /\ scenario.step["public"] = 2
    /\ lastOp.on = "public"

ListenerDedup ==
    FirstAfterSeed
    => /\ scenario.first.file = scenario.seed.file => childCalls["c1"] = 0
       /\ scenario.first.file.size # scenario.seed.file.size => childCalls["c1"] = 1

(***************************************************************************)
(* C11, as amended.  With a children listener registered on 'a' and a      *)
(* record for a/x already merged, re-applying an update for a/x with       *)
(* identical metadata does not invoke the listener again; applying an      *)
(* update for a/x with a different size invokes the listener exactly once  *)
(* if its lastModified is newer than that of the stored record, and not at *)
(* all otherwise.                                                          *)
(***************************************************************************)
ListenerDedupByTimestamp ==
    FirstAfterSeed
    => /\ scenario.first.file = scenario.seed.file => childCalls["c1"] = 0
       /\ scenario.first.file.size # scenario.seed.file.size
          => childCalls["c1"] =
                IF scenario.first.file.lastModified > scenario.seed.file.lastModified
                THEN 1 ELSE 0

\* A newer update of another size has just reached the index that held a/x, and
\* the children listener of c1 was called once.
ResizedUpdateNotified ==
    /\ FirstAfterSeed
    /\ scenario.first.file.size # scenario.seed.file.size
    /\ scenario.first.file.lastModified > scenario.seed.file.lastModified
    /\ childCalls["c1"] = 1
    /\ cursor["c1"].children[<<"x">>] = scenario.first.file


(***************************************************************************)
(* C12.  Listing reconciliation: when fullRefresh succeeds with a listing  *)
(* L, the index's key set afterwards equals the key set of L (every local  *)
(* key absent from L has been deleted), and for each key of L the stored   *)
(* record is the listing entry unless the index already held a record for  *)
(* it whose lastModified is not older, in which case the existing record   *)
(* is kept.                                                                *)
(***************************************************************************)
Reconciled(old, L, new) ==
    /\ DOMAIN new = DOMAIN L
    /\ \A k \in DOMAIN L :
          new[k] = IF k \in DOMAIN old /\ old[k].lastModified >= L[k].lastModified
                   THEN old[k] ELSE L[k]

ListingReconciled ==
    [][lastOp'.kind = "listing"
       => \E j \in 1..Len(listings) :
             /\ listings' = SubSeq(listings, 1, j - 1) \o SubSeq(listings, j + 1, Len(listings))
             /\ Reconciled(files[Sys], listings[j].newFiles, files'[Sys])]_vars

\* A listing has just been applied that held an older entry for a key than the
\* record the index had merged from a live event: the newer record was kept.
ListingAppliedOverNewerRecord ==
    /\ lastOp.kind = "listing"
    /\ \E k \in DOMAIN files[Sys] : files[Sys][k].lastModified > lastOp.time


(***************************************************************************)
(* C13.  upload and delete failures are both recorded and propagated: if   *)
(* the blob-store put fails, upload sets the 'Upload' network error and    *)
(* its promise rejects; if the blob-store remove fails, delete sets the    *)
(* 'Delete' network error and its promise rejects; in both cases no        *)
(* pub/sub event is published for the failed operation.                    *)
(***************************************************************************)
FailuresRecordedAndPropagated ==
    [][/\ lastOp'.kind = "putCatch"
          => /\ "Upload" \in DOMAIN networkErrors'[Sys]
             /\ networkErrors'[Sys]["Upload"] = UploadMessage
             /\ lastOp'.outcome = "rejected"
             /\ inflight' = inflight
       /\ lastOp'.kind = "removeCatch"
          => /\ "Delete" \in DOMAIN networkErrors'[Sys]
             /\ networkErrors'[Sys]["Delete"] = DeleteMessage
             /\ lastOp'.outcome = "rejected"
             /\ inflight' = inflight]_vars

\* A put has just failed: the cursors show the upload error, no message is on
\* its way and S3 does not hold the object.
UploadFailureSeen ==
    /\ lastOp.kind = "putCatch"
    /\ cursor["c1"].networkErrors = <<UploadMessage>>
    /\ inflight = {}
    /\ remote = EmptyMap

(***************************************************************************)
(* C14.  fullRefresh failure leaves the system stale but usable: if the    *)
(* listing call fails, fullRefresh sets the 'FullRefresh' network error,   *)
(* its promise resolves, the loading flag returns to false, and the        *)
(* key -> record map and all listener snapshots are left unchanged.        *)
(***************************************************************************)
FailedRefreshLeavesIndexStale ==
    [][lastOp'.kind = "listingFailed"
       => /\ "FullRefresh" \in DOMAIN networkErrors'[Sys]
          /\ lastOp'.outcome = "resolved"
          /\ loading'[Sys] = FALSE
          /\ files' = files
          /\ childrenLastNotified' = childrenLastNotified
          /\ \A c \in Cursors :
                /\ cursor'[c].metadata = cursor[c].metadata
                /\ cursor'[c].children = cursor[c].children
                /\ cursor'[c].loading = FALSE]_vars

\* A refresh has just failed on an index that holds a record and was loading.
FailedRefreshSeen ==
    /\ lastOp.kind = "listingFailed"
    /\ files[Sys] # EmptyMap
    /\ loadingCalls["c1"] = 1
    /\ cursor["c1"].networkErrors = <<FullRefreshMessage>>

(***************************************************************************)
(* C15.  Error aggregation is diff-then-notify: setNetworkError and        *)
(* clearNetworkError invoke the network-error listeners if and only if the *)
(* list of active messages (ordered by error key) after the call differs   *)
(* from the list before it, and then each listener receives the new list   *)
(* exactly once; setting a key to the message it already has, or clearing  *)
(* a key that is not set, notifies nobody.                                 *)
(***************************************************************************)
DiffThenNotify ==
    [][LET old == GetNetworkErrorMessages(networkErrors[Sys])
           new == GetNetworkErrorMessages(networkErrors'[Sys])
       IN  \A c \in Range(networkErrorListeners[Sys]) :
              IF new # old
              THEN errorCalls'[c] = 1 /\ cursor'[c].networkErrors = new
              ELSE errorCalls'[c] = 0 /\ cursor'[c].networkErrors = cursor[c].networkErrors]_vars

\* A second put has just failed while the upload error was already set, next to
\* another error: nobody was notified.
RepeatedErrorNotNotified ==
    /\ lastOp.kind = "putCatch"
    /\ errorCalls = ZeroCalls
    /\ Len(cursor["c1"].networkErrors) = 2

(***************************************************************************)
(* C16.  After setupPubsub has registered its connection-state listener,   *)
(* the 'PubSub' network error is active exactly when the most recent       *)
(* connection-state notification reported disconnected, for any sequence   *)
(* of connect/disconnect notifications.                                    *)
(***************************************************************************)
PubSubErrorFollowsConnection ==
    connection[Sys] # "none"
    => (("PubSub" \in DOMAIN networkErrors[Sys]) <=> (connection[Sys] = "disconnected"))

\* The socket has just reconnected, which cleared the error the cursors showed.
ReconnectCleared ==
    /\ lastOp.kind = "connection"
    /\ connection[Sys] = "connected"
    /\ errorCalls["c1"] = 1
    /\ cursor["c1"].networkErrors = <<>>

(***************************************************************************)
(* C17.  setPath and setIndex follow the identical re-pointing protocol:   *)
(* each of them, called with a value different from the current one,       *)
(* invokes pathChanged on every document the cursor owns, so that every    *)
(* document whose file exists under the new (path, index) pair starts a    *)
(* download of it.                                                         *)
(***************************************************************************)
RepointsAway(c) ==
    /\ lastOp'.on = c
    /\ \/ lastOp'.kind = "setPath" /\ lastOp'.key # cursor[c].path
       \/ lastOp'.kind = "setIndex" /\ lastOp'.key # <<cursor[c].index>>

RepointReachesEveryDocument ==
    [][\A c \in Cursors :
         RepointsAway(c) =>
           /\ pathChangedCalls'[c] = Cardinality(DOMAIN jsonFiles[c])
           /\ Len(downloads') = Len(downloads)
                + Cardinality(DOMAIN jsonFiles[c] \cap DOMAIN cursor'[c].children)]_vars

(***************************************************************************)
(* C18.  Re-pointing to the current value is a no-op: setPath with the     *)
(* cursor's current path and setIndex with its current index leave every   *)
(* cursor's fields, the listener registrations of every index and every    *)
(* document unchanged: pathChanged is not called, no download is started   *)
(* and no timer is touched.                                                *)
(***************************************************************************)
RepointsToCurrent(c) ==
    /\ lastOp'.on = c
    /\ \/ lastOp'.kind = "setPath" /\ lastOp'.key = cursor[c].path
       \/ lastOp'.kind = "setIndex" /\ lastOp'.key = <<cursor[c].index>>

RepointToCurrentIsNoOp ==
    [][\A c \in Cursors :
         RepointsToCurrent(c) =>
           /\ UNCHANGED <<cursor, files, childrenLastNotified>>
           /\ UNCHANGED <<metadataListeners, childrenListeners, loadingListeners,
                          networkErrorListeners>>
           /\ UNCHANGED <<jsonFiles, timers, downloads>>
           /\ pathChangedCalls' = ZeroCalls]_vars

\* C18: setPath was called with the current path of a cursor that owns a
\* document whose file is among its children (pathChanged would have started a
\* download), and pathChanged was not called.
RepointedToCurrent ==
    /\ lastOp.kind = "setPath" /\ lastOp.on = "c1"
    /\ lastOp.key = cursor["c1"].path
    /\ JsonPath \in DOMAIN jsonFiles["c1"]
    /\ JsonPath \in DOMAIN cursor["c1"].children
    /\ pathChangedCalls["c1"] = 0

(***************************************************************************)
(* C19.  Debounce coalescing: a burst of setAttribute calls on one         *)
(* document, each made before the timer of the previous one fired,         *)
(* produces exactly one upload, issued when the timer started by the last  *)
(* call fires, whose body is the serialization of the mapping as it stands *)
(* after the last call.  Stated on the steps taken while a document has a  *)
(* timer pending: a further setAttribute uploads nothing and leaves one    *)
(* timer scheduled for the document; the firing of the timer starts        *)
(* exactly one upload, of the serialization of the mapping, and leaves no  *)
(* timer; and any other step uploads nothing and leaves the mapping as the *)
(* last call left it.                                                      *)
(***************************************************************************)
TimersOf(T, c, path) == {t \in T : t.cursor = c /\ t.path = path}

DebounceCoalesces ==
    [][\A c \in Cursors : \A path \in DOMAIN jsonFiles[c] :
         jsonFiles[c][path].pendingTimeout # Null =>
           IF lastOp'.kind = "setAttribute" /\ lastOp'.on = c /\ lastOp'.key = path
           THEN /\ puts' = puts
                /\ Cardinality(TimersOf(timers', c, path)) = 1
           ELSE IF lastOp'.kind = "timerFired" /\ lastOp'.on = c /\ lastOp'.key = path
           THEN /\ \E put \in puts' \ puts :
                     /\ puts' = puts \cup {put}
                     /\ put.body = JsonStringify(jsonFiles[c][path].values)
                /\ TimersOf(timers', c, path) = {}
           ELSE /\ puts' = puts
                /\ jsonFiles'[c][path].values = jsonFiles[c][path].values]_vars

(***************************************************************************)
(* C20.  When pathChanged runs on a document whose file does not exist     *)
(* (fileExist() is false: the cursor has no such child), the document's    *)
(* mapping is empty afterwards; and when the text of a download fails to   *)
(* parse as JSON, the mapping is empty afterwards (no key of the text or   *)
(* of the mapping before remains) and no index has a network error it did  *)
(* not have before.                                                        *)
(***************************************************************************)
EmptyOnAbsenceOrParseFailure ==
    [][\A c \in Cursors : \A path \in DOMAIN jsonFiles'[c] :
         /\ (pathChangedCalls'[c] > 0 /\ path \notin DOMAIN cursor'[c].children)
              => jsonFiles'[c][path].values = <<>>
         /\ (/\ lastOp'.kind = "downloadThen" /\ lastOp'.on = c /\ lastOp'.key = path
             /\ ~JsonParse(lastOp'.text).ok)
              => /\ jsonFiles'[c][path].values = <<>>
                 /\ \A i \in Indexes : DOMAIN networkErrors'[i] \subseteq DOMAIN networkErrors[i]]_vars

\* C20: a download came back with an object cut off after its first member, for
\* a document that had an attribute set (its upload timer is still pending), and
\* the mapping is empty.
ParseFailureCleared ==
    /\ lastOp.kind = "downloadThen" /\ lastOp.on = "c1"
    /\ lastOp.text = <<"{", "k", ":", "1", ",">>
    /\ jsonFiles["c1"][JsonPath].pendingTimeout # Null
    /\ jsonFiles["c1"][JsonPath].values = <<>>

(***************************************************************************)
(* C21.  Virtual directories: hasChildren(names) returns true if and only  *)
(* if for every name n in names some key k of the cursor's cached children *)
(* equals n, or starts with n and has '/' right after it, or starts with n *)
(* where n itself ends in '/'.                                             *)
(***************************************************************************)
NameFound(children, n) ==
    \E k \in DOMAIN children :
        \/ k = n
        \/ StartsWith(k, n) /\ Len(k) > Len(n) /\ k[Len(n) + 1] = "/"
        \/ StartsWith(k, n) /\ EndsWith(n, "/")

HasChildrenFindsVirtualDirectories ==
    lastOp.kind = "hasChildren" =>
        (lastOp.result <=>
            \A j \in 1..Len(lastOp.key) :
                NameFound(cursor[lastOp.on].children, lastOp.key[j]))

\* C21: hasChildren(['fo']) returned true although fo is not a stored key (and
\* fox, which only begins like it, is not what made it true: fo/x or fo/y is).
VirtualDirectoryFound ==
    /\ lastOp.kind = "hasChildren" /\ lastOp.key = << <<"f", "o">> >>
    /\ lastOp.result
    /\ <<"f", "o">> \notin DOMAIN cursor["c1"].children
    /\ <<"f", "o", "x">> \in DOMAIN cursor["c1"].children

(***************************************************************************)
(* C22.  Folder aggregation: for any argument of, getImmediateChildFolders *)
(* returns exactly one entry per distinct first path segment that remains  *)
(* after of among the cached children lying under of (the keys that start  *)
(* with of and are not of itself; what remains is the key without those    *)
(* first characters, and its first segment ends before its first '/');     *)
(* the entry's key is that segment, its size the sum of the sizes of the   *)
(* children under the segment and its lastModified their maximum.          *)
(***************************************************************************)
FirstSegment(s) ==
    LET n == CHOOSE m \in 0..Len(s) :
                 /\ \A j \in 1..m : s[j] # "/"
                 /\ m = Len(s) \/ s[m + 1] = "/"
    IN  SubSeq(s, 1, n)

Under(children, of) == {k \in DOMAIN children : StartsWith(k, of) /\ k # of}

SegmentOf(k, of) == FirstSegment(Substring(k, Len(of)))

EndingInSlash(prefix) == IF EndsWith(prefix, "/") THEN prefix ELSE prefix \o <<"/">>

ChildrenUnder(children, prefix) ==
    LET under == {k \in DOMAIN children : StartsWith(k, prefix)}
    IN  [sub \in {Substring(k, Len(prefix)) : k \in under} |-> children[prefix \o sub]]

GetChildrenOfNormalizes ==
    lastOp.kind = "getChildrenOf" =>
        lastOp.result = ChildrenUnder(cursor[lastOp.on].children, EndingInSlash(lastOp.key))

(***************************************************************************)
(* C24.  Prefix deletion: deleteByPrefix(prefix) issues exactly one delete *)
(* per key the index knows that starts with prefix; its promise resolves   *)
(* only when S3 holds none of them any more; no step from the call on      *)
(* touches the record of a key that does not start with prefix; and once   *)
(* every remove has succeeded and every delete event has come back, the    *)
(* index contains no key that starts with prefix.                          *)
(***************************************************************************)
PrefixCalled == scenario.kind = "deleteByPrefix"

PrefixDeletionStep ==
    /\ (~PrefixCalled /\ PrefixCalled')
          => /\ removes' = {k \in DOMAIN files[Sys] : StartsWith(k, scenario'.prefix)}
             /\ scenario'.issued = removes'
    /\ PrefixCalled'
          => \A k \in DOMAIN files[Sys] :
                ~StartsWith(k, scenario'.prefix)
                   => k \in DOMAIN files'[Sys] /\ files'[Sys][k] = files[Sys][k]

PrefixDeletionDone ==
    PrefixCalled =>
        /\ PromiseAll(scenario.issued) = "resolved"
              => \A k \in scenario.issued : k \notin DOMAIN remote
        /\ (removes = {} /\ inflight = {})
              => \A k \in DOMAIN files[Sys] : ~StartsWith(k, scenario.prefix)

PrefixDeletion == [][PrefixDeletionStep]_vars /\ []PrefixDeletionDone

(***************************************************************************)
(* C24, as amended.  deleteByPrefix(prefix) issues exactly one delete per  *)
(* key the index knows at the moment of the call that starts with prefix   *)
(* (a matching key it learns of later, such as one of a listing still on   *)
(* its way, is not deleted); its promise resolves only when S3 holds none  *)
(* of these keys any more; each of them leaves the index when its delete   *)
(* event is delivered; and no step from the call on touches the record of  *)
(* a key that does not start with prefix.                                  *)
(***************************************************************************)
KnownKeysDeletionStep ==
    /\ PrefixDeletionStep
    /\ \A msg \in inflight \ inflight' :
          msg.topic = "DELETE"
             => Substring(msg.body.key, Len(GlobalPrefix)) \notin DOMAIN files'[Sys]

KnownKeysDeletionDone ==
    PrefixCalled =>
        /\ PromiseAll(scenario.issued) = "resolved"
              => \A k \in scenario.issued : k \notin DOMAIN remote
        /\ (removes = {} /\ inflight = {})
              => scenario.issued \cap DOMAIN files[Sys] = {}

PrefixDeletionOfKnownKeys == [][KnownKeysDeletionStep]_vars /\ []KnownKeysDeletionDone

\* C24: deleteByPrefix('a') was called with a/x, a/y, ab and b known, the three
\* removes succeeded and their events came back: b alone is left.
PrefixDeleted ==
    /\ PrefixCalled /\ scenario.prefix = <<"a">>
    /\ scenario.issued = {<<"a", "/", "x">>, <<"a", "/", "y">>, <<"a", "b">>}
    /\ removes = {} /\ inflight = {}
    /\ DOMAIN files[Sys] = {<<"b">>}

(***************************************************************************)
(* C25.  Cursor mutation forwarding joins paths with exactly one           *)
(* separator: for a cursor at path p and a non-empty child c,              *)
(* uploadChild(c), deleteChild(c) and deleteByPrefix(c) call the index     *)
(* with p + '/' + c when p is non-empty and does not end in '/', with      *)
(* p + c when p ends in '/', and with c alone when p is empty; upload()    *)
(* and delete() forward p itself.                                          *)
(***************************************************************************)
Joined(p, c) ==
    IF p = <<>> THEN c
    ELSE IF p[Len(p)] = "/" THEN p \o c
    ELSE p \o <<"/">> \o c

ForwardingJoinsPaths ==
    /\ lastOp.kind \in {"uploadChild", "deleteChild", "cursorDeleteByPrefix"}
          => lastOp.result = Joined(cursor[lastOp.on].path, lastOp.key)
    /\ lastOp.kind \in {"cursorUpload", "cursorDelete"}
          => lastOp.result = cursor[lastOp.on].path
    /\ lastOp.kind \in {"uploadChild", "cursorUpload"}
          => \E put \in puts : put.path = lastOp.result
    /\ lastOp.kind \in {"deleteChild", "cursorDelete"} => lastOp.result \in removes
    /\ lastOp.kind = "cursorDeleteByPrefix"
          => /\ scenario.prefix = lastOp.result
             /\ \A k \in DOMAIN files[Sys] : StartsWith(k, lastOp.result) => k \in removes

\* C25: a cursor at 'a/' forwarded deleteByPrefix('x') as a/x, and the deletes
\* of a/x and a/x/y were issued.
ForwardedWithOneSeparator ==
    /\ lastOp.kind = "cursorDeleteByPrefix" /\ lastOp.key = <<"x">>
    /\ cursor["c1"].path = <<"a", "/">>
    /\ lastOp.result = <<"a", "/", "x">>
    /\ removes = {<<"a", "/", "x">>, <<"a", "/", "x", "/", "y">>}

(***************************************************************************)
(* C26.  Topic truncation rule: for an input longer than the limit (80),   *)
(* makeTopicPubSubSafe returns the first 80 characters of the first        *)
(* segment when that segment alone is longer than 80 (so a slash-free      *)
(* 100-character path yields its first 80 characters); otherwise it        *)
(* returns the longest prefix of the input made of whole '/'-joined        *)
(* segments whose length is under 80, never cutting inside a segment.      *)
(* The prefix of no segment at all, the empty string, counts as one.       *)
(***************************************************************************)
FirstSegmentLength(s) ==
    IF \E j \in 1..Len(s) : s[j] = "/"
    THEN (CHOOSE j \in 1..Len(s) : s[j] = "/" /\ \A m \in 1..(j - 1) : s[m] # "/") - 1
    ELSE Len(s)

\* The lengths of the prefixes of s that end where a segment ends.
WholeSegmentCuts(s) ==
    {0} \cup {n \in 1..Len(s) : n = Len(s) \/ s[n + 1] = "/"}

TruncationRule ==
    lastOp.kind = "makeTopicPubSubSafe" /\ Len(lastOp.key) > 80
       => IF FirstSegmentLength(lastOp.key) > 80
          THEN lastOp.result = SubSeq(lastOp.key, 1, 80)
          ELSE /\ lastOp.result = SubSeq(lastOp.key, 1, Len(lastOp.result))
               /\ Len(lastOp.result) \in WholeSegmentCuts(lastOp.key)
               /\ Len(lastOp.result) < 80
               /\ \A n \in WholeSegmentCuts(lastOp.key) : n < 80 => n <= Len(lastOp.result)

\* C26: a slash-free path of 100 characters was cut to its first 80.
SlashFreeCut ==
    /\ lastOp.kind = "makeTopicPubSubSafe"
    /\ Len(lastOp.key) = 100 /\ FirstSegmentLength(lastOp.key) = 100
    /\ lastOp.result = SubSeq(lastOp.key, 1, 80)

(***************************************************************************)
(* C27.  For every input string, makeTopicPubSubSafe returns a prefix of   *)
(* the input whose length is at most 80, and returns the input unchanged   *)
(* when its length is at most 80; every topic passed to publish by upload  *)
(* and delete therefore has length at most 80.                             *)
(***************************************************************************)
TopicInput ==
    CASE lastOp.kind = "uploadTopic" ->
            <<"/", "U", "P", "D", "A", "T", "E", "/", "p", "u", "b", "l", "i", "c", "/">>
               \o lastOp.key
      [] lastOp.kind = "deleteTopic" ->
            <<"/", "D", "E", "L", "E", "T", "E", "/", "p", "u", "b", "l", "i", "c", "/">>
               \o lastOp.key
      [] OTHER -> lastOp.key

TopicIsShortPrefix ==
    lastOp.kind \in {"makeTopicPubSubSafe", "uploadTopic", "deleteTopic"}
       => /\ StartsWith(TopicInput, lastOp.result)
          /\ Len(lastOp.result) <= 80
          /\ Len(TopicInput) <= 80 => lastOp.result = TopicInput

\* C27: the topic of an upload to a path of two segments of 40 characters, 96
\* characters long before the cut, is the 55 characters up to the second '/'.
UploadTopicCut ==
    /\ lastOp.kind = "uploadTopic"
    /\ Len(lastOp.key) = 81 /\ FirstSegmentLength(lastOp.key) = 40
    /\ Len(lastOp.result) = 55

(***************************************************************************)
(* C28.  Echo visibility: provided the index is subscribed and the channel *)
(* delivers every published message, each successful upload(path) is       *)
(* eventually followed by a state in which getMetadata(path) is a record   *)
(* with the uploaded size, and each successful delete(path) by a state in  *)
(* which getMetadata(path) is null, whatever record (from a listing or     *)
(* another event) the index held for that key before.                      *)
(***************************************************************************)
EchoKey(msg) == Substring(msg.body.key, Len(GlobalPrefix))

DeletesBecomeVisible ==
    \A msg \in EchoDeletes : (msg \in inflight) ~> (EchoKey(msg) \notin DOMAIN files[Sys])

EchoVisibility ==
    /\ \A msg \in EchoUpdates :
          (msg \in inflight)
             ~> /\ EchoKey(msg) \in DOMAIN files[Sys]
                /\ files[Sys][EchoKey(msg)].size = msg.body.size
    /\ DeletesBecomeVisible

\* C28, amended: the echo of an upload replaces no record or an older one, and is
\* dropped when the index holds a record that is not older; the echo of a delete
\* always removes the record.
EchoVisibilityByTimestamp ==
    /\ \A msg \in EchoUpdates :
          (msg \in inflight)
             ~> /\ EchoKey(msg) \in DOMAIN files[Sys]
                /\ files[Sys][EchoKey(msg)].lastModified >= msg.body.lastModified
    /\ [][\A msg \in EchoUpdates :
             /\ msg \in inflight /\ msg \notin inflight'
             /\ \/ EchoKey(msg) \notin DOMAIN files[Sys]
                \/ files[Sys][EchoKey(msg)].lastModified < msg.body.lastModified
             => /\ EchoKey(msg) \in DOMAIN files'[Sys]
                /\ files'[Sys][EchoKey(msg)]
                      = FileMetadata(EchoKey(msg), msg.body.lastModified, msg.body.size)]_vars
    /\ DeletesBecomeVisible

\* C28: the echo of an upload of size 2 made at time 2 has arrived, nothing is on
\* its way any more, S3 holds the object and the index shows the uploaded record.
EchoArrived ==
    /\ lastOp.kind = "updateReceived"
    /\ inflight = {} /\ puts = {}
    /\ <<"a", "/", "x">> \in DOMAIN remote /\ remote[<<"a", "/", "x">>].size = 2
    /\ files[Sys] = (<<"a", "/", "x">> :> FileMetadata(<<"a", "/", "x">>, 2, 2))

(***************************************************************************)
(* C29.  Change listeners of a JsonDocument are invoked only after the     *)
(* debounced upload issued by the timer has completed successfully, each   *)
(* listener once per upload and after the upload was issued; if that       *)
(* upload fails no change listener is invoked, and setAttribute alone      *)
(* (before the timer fires) invokes none.  A listener is an entry of the   *)
(* document's list: a function added twice is two listeners.               *)
(***************************************************************************)
ChangeListenersOf(upload) == jsonFiles[upload.put.doc.cursor][upload.put.doc.path].changeListeners

\* The upload whose publish settled in this step resolves for the first time.
FirstResolve(upload) ==
    /\ upload \in uploads /\ upload \notin uploads'
    /\ lastOp'.kind = "publishThen"
    /\ ~upload.settled

ChangeListenersAfterUpload ==
    [][/\ changeCalls' # ZeroChangeCalls => \E upload \in uploads : FirstResolve(upload)
       /\ \A upload \in uploads :
             FirstResolve(upload)
                => \A listener \in ChangeListeners :
                      changeCalls'[listener] = Count(ChangeListenersOf(upload), listener)
       /\ \A upload \in uploads :
             upload.settled /\ upload \notin uploads' => changeCalls' = ZeroChangeCalls
       /\ lastOp'.kind \in {"setAttribute", "timerFired", "docPutThen", "docPutCatch",
                            "publishCatch"}
             => changeCalls' = ZeroChangeCalls]_vars

\* C29: the upload of the document has just completed, and each of its two
\* listeners was called once.
ChangeListenersCalled ==
    /\ lastOp.kind = "publishThen"
    /\ changeCalls = [listener \in ChangeListeners |-> 1]
    /\ jsonFiles["c1"][JsonPath].changeListeners \in {<<"l1", "l2">>, <<"l2", "l1">>}

(***************************************************************************)
(* C30.  At every moment a JsonDocument has at most one scheduled debounce *)
(* timer: each setAttribute cancels the pending timer before starting a    *)
(* new one, and pendingTimeout is non-null exactly while a timer is        *)
(* scheduled and has not yet fired.                                        *)
(***************************************************************************)
OneTimerPerDocument ==
    \A c \in Cursors : \A path \in DOMAIN jsonFiles[c] :
        /\ Cardinality(TimersOf(timers, c, path)) <= 1
        /\ jsonFiles[c][path].pendingTimeout # Null <=> TimersOf(timers, c, path) # {}
        /\ \A t \in TimersOf(timers, c, path) :
              jsonFiles[c][path].pendingTimeout = [handle |-> t.id]

AtMostOneDebounceTimer ==
    /\ []OneTimerPerDocument
    /\ [][lastOp'.kind = "setAttribute"
             => LET c    == lastOp'.on
                    path == lastOp'.key
                IN  \E t \in timers' :
                       /\ TimersOf(timers', c, path) = {t}
                       /\ t.due = now + DebounceDelay
                       /\ timers' \ {t} = timers \ TimersOf(timers, c, path)]_vars

\* C30: setAttribute was called at time 2 on the document of c1, whose timer
\* is now the one due at 3, no timer having fired before.
TimerRestarted ==
    /\ lastOp.kind = "setAttribute" /\ now = 2
    /\ puts = {} /\ callsMade = 0
    /\ \E t \in timers : timers = {t} /\ t.due = 3
    /\ jsonFiles["c1"][JsonPath].pendingTimeout # Null

(***************************************************************************)
(* C31.  FullRefresh error lifecycle: once a fullRefresh has failed, the   *)
(* 'FullRefresh' network error stays active through any number of live     *)
(* events and further failed refreshes, and is cleared exactly when a      *)
(* later fullRefresh succeeds; errors under other keys (Upload, Delete,    *)
(* Get, PubSub) are not touched by fullRefresh.                            *)
(***************************************************************************)
OtherErrors(ne) == [k \in DOMAIN ne \ {"FullRefresh"} |-> ne[k]]

FullRefreshErrorLifecycle ==
    [][/\ lastOp'.kind = "listingFailed"
             => /\ "FullRefresh" \in DOMAIN networkErrors'[Sys]
                /\ networkErrors'[Sys]["FullRefresh"] = FullRefreshMessage
       /\ lastOp'.kind = "listing" => "FullRefresh" \notin DOMAIN networkErrors'[Sys]
       /\ lastOp'.kind \notin {"listing", "listingFailed"}
             => ("FullRefresh" \in DOMAIN networkErrors'[Sys]
                    <=> "FullRefresh" \in DOMAIN networkErrors[Sys])
       /\ lastOp'.kind \in {"fullRefresh", "list", "listing", "listingFailed"}
             => OtherErrors(networkErrors'[Sys]) = OtherErrors(networkErrors[Sys])]_vars

\* C31: the 'FullRefresh' error a failed refresh left is still active after an
\* update event was received, next to the 'Upload' error of a failed put.
FullRefreshErrorOutlivesEvent ==
    /\ lastOp.kind = "updateReceived"
    /\ DOMAIN networkErrors[Sys] = {"FullRefresh", "Upload"}
    /\ networkErrors[Sys]["FullRefresh"] = FullRefreshMessage
    /\ <<"a", "/", "x">> \in DOMAIN files[Sys]

(***************************************************************************)
(* C32.  After setIndex(newIndex) the cursor's loading flag and            *)
(* network-error list reflect newIndex: getIsLoading() equals              *)
(* newIndex.loading and getNetworkErrors() equals                          *)
(* newIndex.getNetworkErrorMessages(), and later loading or error changes  *)
(* of the previously used index no longer alter the cursor.                *)
(***************************************************************************)
ReflectsNewIndex ==
    lastOp.kind = "setIndex"
       => /\ cursor[lastOp.on].loading = loading[cursor[lastOp.on].index]
          /\ cursor[lastOp.on].networkErrors
                = GetNetworkErrorMessages(networkErrors[cursor[lastOp.on].index])

(***************************************************************************)
(* C33.  The promise returned by upload settles for every outcome of the   *)
(* external calls: it resolves when put and publish both succeed, rejects  *)
(* when the put or the publish fails, and is never left pending once both  *)
(* external calls have completed.  Here: at the step where the last        *)
(* publish of an upload completes, the promise is settled, by that step    *)
(* or by an earlier one.                                                   *)
(***************************************************************************)
UploadPromiseSettles ==
    [][\A upload \in uploads \ uploads' :
          upload.publishing = 1 => upload.settled \/ lastOp'.outcome = "resolved"]_vars

(***************************************************************************)
(* C34.  Each successful upload publishes exactly one update event for its *)
(* key: for one call of upload, publish is invoked once, whether the blob  *)
(* store signals completion through the completeCallback, through the put  *)
(* promise, or through both.  Here: right after Storage.put has completed, *)
(* the upload has one publish in flight.                                   *)
(***************************************************************************)
PublishesOnce ==
    lastOp.kind = "docPutThen" => \A upload \in uploads : upload.publishing = 1

(***************************************************************************)
(* C35.  A pending debounced write is uploaded to the document it was      *)
(* written to: if the cursor is re-pointed with setPath between a          *)
(* setAttribute call and the firing of its debounce timer, the upload the  *)
(* timer issues still targets the file under the cursor path that was      *)
(* current when setAttribute was called.  Here every setAttribute is       *)
(* called while the cursor is at a, so every put goes to a/m.              *)
(***************************************************************************)
WriteUploadedWhereWritten ==
    \A put \in puts : put.path = EnsurePathEndsWithSlash(WrittenAt) \o JsonPath

(***************************************************************************)
(* C36.  After a cursor re-point to a path whose backing file exists and   *)
(* parses, once the download has completed the document's mapping equals   *)
(* exactly the key-value pairs of that file: no attribute that came only   *)
(* from the previously pointed-at file remains.  Here nothing is written   *)
(* to the document and every download completes before the next re-point,  *)
(* so a completed download is the one of the file under the cursor's path. *)
(***************************************************************************)
FileUnder(c) == EnsurePathEndsWithSlash(cursor[c].path) \o JsonPath

MembersOf(pairs) == {pairs[n] : n \in DOMAIN pairs}

MappingEqualsFile ==
    lastOp.kind = "downloadThen"
    => MembersOf(jsonFiles["c1"][JsonPath].values)
          = MembersOf(JsonParse(ContentOf(FileUnder("c1"))).result)

(***************************************************************************)
(* C37.  When a cursor is re-pointed several times before the earlier      *)
(* downloads finish, the document's final mapping reflects the file at the *)
(* final path whatever the order in which the downloads complete: a        *)
(* download started for an earlier path never writes its keys into the     *)
(* mapping after a later re-point.  Here: a download that completes for a  *)
(* file other than the one under the cursor's path leaves the mapping      *)
(* as it was.                                                              *)
(***************************************************************************)
StaleDownloadWritesNothing ==
    [][\A j \in 1..Len(downloads) :
          /\ lastOp'.kind = "downloadThen"
          /\ downloads' = Without(downloads, j)
          /\ downloads[j].file # FileUnder("c1")
          => jsonFiles'["c1"][JsonPath].values = jsonFiles["c1"][JsonPath].values]_vars

(***************************************************************************)
(* C38.  A value written with setAttribute(key, v) is not overwritten by a *)
(* download that was started before the write: if pathChanged's download   *)
(* completes after the setAttribute, getAttribute(key) still returns v and *)
(* the debounced upload carries v for that key.  Here: while the write of  *)
(* k = 3 waits for its debounce timer, a download that completes leaves    *)
(* k = 3 in the mapping.                                                   *)
(***************************************************************************)
WriteSurvivesDownload ==
    [][lastOp'.kind = "downloadThen" /\ timers # {}
          => <<"k", "3">> \in MembersOf(jsonFiles'["c1"][JsonPath].values)]_vars

(***************************************************************************)
(* C39.  The index's loading flag is true whenever at least one            *)
(* fullRefresh is in flight and false once every started fullRefresh has   *)
(* completed, by success or failure, including when several fullRefresh    *)
(* calls overlap; loading listeners are invoked only when the flag's value *)
(* actually changes.  Here the first half: the flag of each index is true  *)
(* exactly while a fullRefresh of that index is in flight.                 *)
(***************************************************************************)
LoadingWhileRefreshing ==
    \A i \in Indexes : loading[i] <=> refreshes[i] > 0

====
